---------------------------- MODULE Spec2Model ----------------------------
(***************************************************************************)
(* Model of the Tsunami orchestrator's discovery-and-bounded-execution     *)
(* engine (src/src/orch_library.py, src/src/orchestrator.py).              *)
(*                                                                         *)
(* The scheduler part follows start_docker_containers: the main thread     *)
(* submits one run_container job per entry of ip_list to a                 *)
(* ThreadPoolExecutor(max_workers=max_containers), drains the futures with *)
(* as_completed and leaves the `with` block (shutdown(wait=True)).         *)
(* The executor is modelled at the granularity of its thread hand-offs:    *)
(* the work queue, the idle semaphore, lazily spawned worker threads, and  *)
(* the waiter that as_completed installs on the futures.                   *)
(*                                                                         *)
(* A host h in Hosts stands for the address 10.0.0.h.                      *)
(***************************************************************************)
EXTENDS Integers, Sequences, FiniteSets, TLC

\* ------------------------------------------------------------------ bounds
MaxHosts == 2

MaxLimit == 2

\* Lines of a probe report.
MaxLines == 4

\* Entries of a target list (typed in, or lines of a list file).
MaxEntries == 3

\* Components of a file name.
MaxParts == 2

Hosts == 1..MaxHosts

\* ------------------------------------------------- exceptions and results
\* The exception classes the handlers of run_container and of the drain loop
\* tell apart, with their base class ("" for the root).
ExcParent ==
  [ FileNotFoundError  |-> "OSError",
    PermissionError    |-> "OSError",
    TimeoutError       |-> "OSError",
    IsADirectoryError  |-> "OSError",
    NotADirectoryError |-> "OSError",
    OSError            |-> "Exception",
    CalledProcessError |-> "SubprocessError",
    SubprocessError    |-> "Exception",
    CancelledError     |-> "Exception",
    ValueError         |-> "Exception",
    UnicodeDecodeError |-> "ValueError",
    Exception          |-> "" ]

ExcClasses == DOMAIN ExcParent

RECURSIVE IsInstance(_, _)
\* isinstance(exc, cls): cls is exc's class or one of its bases.
IsInstance(exc, cls) ==
  IF exc = cls THEN TRUE
  ELSE IF exc = "" THEN FALSE
  ELSE IsInstance(ExcParent[exc], cls)

RECURSIVE FirstHandler(_, _, _)
\* An except chain: the code of the first clause, in textual order, whose
\* class matches; "uncaught" when none does.
FirstHandler(handlers, exc, k) ==
  IF k > Len(handlers) THEN "uncaught"
  ELSE IF IsInstance(exc, handlers[k].cls) THEN handlers[k].code
  ELSE FirstHandler(handlers, exc, k + 1)

\* Mutant of HandlersPlain: the Plain branch has the generic clause only.
HandlersPlainGenericOnly ==
  << [cls |-> "Exception", code |-> -2] >>

\* except clauses of run_container, Plain branch (flag_sim = True).
HandlersPlain ==
  << [cls |-> "FileNotFoundError",  code |-> -3],
     [cls |-> "PermissionError",    code |-> -4],
     [cls |-> "CalledProcessError", code |-> -5],
     [cls |-> "OSError",            code |-> -6],
     [cls |-> "Exception",          code |-> -2] >>

\* Mutant of HandlersDecorated: the OSError clause stands first and shadows
\* the clauses of its subclasses.
HandlersDecoratedOSErrorFirst ==
  << [cls |-> "OSError",            code |-> -6],
     [cls |-> "FileNotFoundError",  code |-> -3],
     [cls |-> "PermissionError",    code |-> -4],
     [cls |-> "CalledProcessError", code |-> -5],
     [cls |-> "Exception",          code |-> -2] >>

\* except clauses of run_container, Decorated branch (flag_sim = False).
HandlersDecorated ==
  << [cls |-> "FileNotFoundError",  code |-> -3],
     [cls |-> "PermissionError",    code |-> -4],
     [cls |-> "CalledProcessError", code |-> -5],
     [cls |-> "OSError",            code |-> -6],
     [cls |-> "Exception",          code |-> -2] >>

\* What subprocess.run(command, check=True) does for one host:
\*   exit  - the process was spawned and ended with that exit code;
\*   raise - the process could not be spawned, Popen raised exc.
ExitCodes == {0, 1}

LaunchErrors == {"FileNotFoundError", "PermissionError", "OSError", "ValueError"}

\* An exception that leaves run_container itself: the Console constructor
\* stands outside the try block and every handler prints to the console.
EscapeErrors == {"TimeoutError", "CancelledError", "ValueError"}

ProcResults ==
  [type : {"exit"}, code : ExitCodes, exc : {""}]
    \cup [type : {"raise"}, code : {0}, exc : LaunchErrors]
    \cup [type : {"escape"}, code : {0}, exc : EscapeErrors]

\* Results that end run_container before a process exists.
NoProcessResults == { pr \in ProcResults : pr.type # "exit" }

\* Nothing is known yet of the scan of a host / its process is alive.
NotRun == [type |-> "none", code |-> 0, exc |-> ""]

StillRunning == [type |-> "running", code |-> 0, exc |-> ""]

\* subprocess.run(..., check=True): the exception it raises, "" if it returns.
SubprocessRun(pr) ==
  IF pr.type = "raise" THEN pr.exc
  ELSE IF pr.code # 0 THEN "CalledProcessError"
  ELSE ""

\* The try block of run_container once subprocess.run has returned:
\* returncode 0 -> return 0, otherwise return -2.
AfterRun(returncode) == IF returncode = 0 THEN 0 ELSE -2

\* Mutant of run_container: the generic clause is missing, so an exception of
\* the launch that is no OSError leaves the function.
run_container_no_generic(pr, fs) ==
  IF pr.type = "escape" THEN [kind |-> "exc", code |-> 0, exc |-> pr.exc]
  ELSE LET raised == SubprocessRun(pr)
           handlers == IF fs THEN HandlersPlain ELSE HandlersDecorated
       IN IF raised = ""
            THEN [kind |-> "ret", code |-> AfterRun(pr.code), exc |-> ""]
          ELSE IF raised = "ValueError"
            THEN [kind |-> "exc", code |-> 0, exc |-> raised]
            ELSE [kind |-> "ret", code |-> FirstHandler(handlers, raised, 1), exc |-> ""]

\* run_container(ip, flag_sim): the value the future ends with,
\* [kind |-> "ret", code] for a returned int, [kind |-> "exc", exc] when the
\* exception left the function.
run_container(pr, fs) ==
  IF pr.type = "escape" THEN [kind |-> "exc", code |-> 0, exc |-> pr.exc]
  ELSE LET raised == SubprocessRun(pr)
           handlers == IF fs THEN HandlersPlain ELSE HandlersDecorated
       IN IF raised = ""
            THEN [kind |-> "ret", code |-> AfterRun(pr.code), exc |-> ""]
            ELSE [kind |-> "ret", code |-> FirstHandler(handlers, raised, 1), exc |-> ""]

NoResult == [kind |-> "none", code |-> 0, exc |-> ""]

\* except clauses of the drain loop around future.result().
DrainHandlers ==
  << [cls |-> "TimeoutError",   code |-> "timeout"],
     [cls |-> "CancelledError", code |-> "cancelled"],
     [cls |-> "Exception",      code |-> "unexpected"] >>

\* The branch the drain loop takes for a finished future.
DrainBranch(res) ==
  IF res.kind = "ret"
    THEN IF res.code # 0 THEN "error_code" ELSE "ok"
    ELSE FirstHandler(DrainHandlers, res.exc, 1)

\* Mutant of DrainAdvance: the counter is advanced in the except branches and
\* again in the finally clause.
DrainAdvanceTwice(branch) ==
  IF branch \in {"timeout", "cancelled", "unexpected"} THEN 2 ELSE 1

\* Mutant of DrainAdvance: the counter is advanced at the end of the try
\* block instead of in a finally clause, so the except branches skip it.
DrainAdvanceInTry(branch) ==
  IF branch \in {"timeout", "cancelled", "unexpected"} THEN 0 ELSE 1

\* The finally clause of the drain loop: completed += 1 on every branch.
DrainAdvance(branch) == 1


\* ------------------------------------------------------------------- state
VARIABLES
  ip_list,          \* the hosts handed to start_docker_containers, in order
  max_containers,   \* the concurrency limit (max_workers of the pool)
  flag_sim,         \* TRUE: Plain progress lines, FALSE: Decorated bar
  proc_result,      \* environment: what the scan process of each host did
  pc,               \* position of the thread running start_docker_containers
  n_submitted,      \* entries of ip_list already passed to executor.submit
  future,           \* job -> state of its Future
  result,           \* job -> value or exception stored in its Future
  stage,            \* job -> where the worker running it stands
  work_queue,       \* executor._work_queue
  idle_semaphore,   \* executor._idle_semaphore
  num_threads,      \* len(executor._threads)
  w_get,            \* worker threads blocked in work_queue.get()
  w_release,        \* worker threads between work_item.run() and release()
  shutdown,         \* executor._shutdown
  waiter,           \* as_completed has installed its waiter on the futures
  prefinished,      \* futures found finished when as_completed was entered
  pending_fs,       \* futures as_completed still waits for
  waiter_finished,  \* waiter.finished_futures, in order of set_result
  completed,        \* the progress counter (completed / task.completed)
  updates,          \* the progress updates emitted so far
  branch_taken,     \* job -> branch the drain loop took for it
  completion_order, \* history: jobs in the order their futures finished
  n_prefinished,    \* history: size of the finished set as_completed started with
  launches,         \* history: job -> external processes spawned for it
  submits,          \* history: host -> calls of executor.submit for it
  \* --- target resolution and liveness probing (the callers of the scheduler)
  f_mode,           \* how the run was started (Modes)
  f_pc,             \* position of the manager function
  f_flag,           \* the flag_sim argument
  f_cont,           \* the containers argument
  f_targets,        \* the target(s) given: typed entries or list-file lines
  host_list,        \* the validated entries (ip_list / host_list of the managers)
  f_idx,            \* lines of the probe's output read so far
  active_hosts,     \* the set the report parsers fill
  current_ip,       \* the candidate of the batch parser (NoIp for None)
  active_ips,       \* scan_ip_list_manager: active_ips before deduplication
  f_pending,        \* scan_ip_list_manager: probe futures not yet drained
  repeated,         \* history: entries whose repetition a set has absorbed
  f_report,         \* a probe report given whole, as lines (<< >> when read line by line)
  f_calls,          \* calls of start_docker_containers made so far
  f_ret,            \* what the manager returned (NoRet before it returns)
  f_probe,          \* how the last liveness probe ended ("none" before the first)
  f_diag,           \* the entries a manager has reported as not valid, in order
  f_nmap,           \* history: what the last liveness probe was run on
  f_io,             \* how reading and rewriting the list of subnets ended
  f_done,           \* scan_ip_list_manager: entry -> how its probe ended
  \* --- main (orchestrator.py) and the front ends that start it
  m_pc,             \* position of main ("off" while only the library is looked at)
  m_front,          \* the front end the run is started from
  m_limit,          \* the text given as the concurrency limit
  m_file,           \* the file name given for the list of subnets
  m_kept,           \* clear_directories left an entry in the logs directory
  m_rejected,       \* history: main has refused the target it was given
  m_jobs,           \* summary of the drain branches of the jobs of the call
  m_logs,           \* what the report-building step found
  m_status,         \* what main returned (NoRet before it returns)
  m_clear,          \* how the preparation of the directories ended
  \* --- the GUI (orchestrator_GUI.py) around a run it has started
  g_thread,         \* position of thread_function of the start handler
  current_process,  \* App.current_process ("None" or "Popen")
  stop_btn,         \* state of the Stop button
  g_container,      \* the orchestrator_ container of the run
  g_stop,           \* history: how the calls of stop_scan ended, in order
  g_pc,             \* position of stop_scan ("idle" outside of it)
  g_signal,         \* history: the jobs started and finished when killpg was called
  \* --- the App (orchestrator_GUI.py) over several scans, the container taken whole
  a_thread,         \* scan -> position of its start handler and thread_function
  a_proc,           \* scan -> the process lib.scan_... has started for it
  a_current,        \* App.current_process: 0 for None, else the scan of the object
  a_stop_btn,       \* state of the Stop button
  a_man_btn,        \* state of the "How To" button
  a_dyn_btn,        \* state of the "Start Orchestrator" button
  a_form,           \* dynamic_frame, which holds the three Start buttons
  a_stack,          \* start handlers suspended inside stop_btn.update()
  a_window,         \* the application window
  a_done,           \* history: scan -> runs of its on_thread_complete
  a_close,          \* history: how the last call of close ended
  a_stopped,        \* history: how the last call of stop_scan ended
  a_reentered,      \* history: an event was handled inside a start handler
  a_waits,          \* the scan on whose process the thread of each scan waits
  a_failed,         \* history: a call of stop_scan has failed
  p_pc,             \* a function looked at alone: "off", "call" or "returned"
  p_in,             \* what it is called with
  p_out,            \* what it has returned
  c_prog,           \* the pipes the child of a GUI scan writes its lines to, in order
  c_at,             \* the line the child writes next
  c_exited,         \* the child has ended and its ends of the pipes are closed
  o_pipe,           \* lines in the pipe of the child's stdout
  e_pipe,           \* lines in the pipe of the child's stderr
  s_pc,             \* stream_output: "off", "stdout", "stderr", "wait" or "done"
  s_logged,         \* lines passed to log_callback, in order
  t_pc              \* thread_function: "off", "wait" or "returned"

mainVars ==
  << m_pc, m_front, m_limit, m_file, m_kept, m_rejected, m_jobs, m_logs,
     m_status, m_clear >>

stopVars ==
  << g_thread, current_process, stop_btn, g_container, g_stop, g_pc, g_signal >>

appVars ==
  << a_thread, a_proc, a_current, a_stop_btn, a_man_btn, a_dyn_btn, a_form,
     a_stack, a_window, a_done, a_close, a_stopped, a_reentered, a_waits,
     a_failed >>

\* A function of the library looked at on its own.
pureVars == << p_pc, p_in, p_out >>

\* The child of a GUI scan, its pipes and the thread that streams them.
pipeVars == << c_prog, c_at, c_exited, o_pipe, e_pipe, s_pc, s_logged, t_pc >>

sideVars == << pureVars, pipeVars >>

guiVars == << stopVars, appVars, sideVars >>

\* What a run is started with; no step of the scheduler changes it.
feVars ==
  << f_mode, f_pc, f_flag, f_cont, f_targets, host_list, f_idx, active_hosts,
     current_ip, active_ips, f_pending, repeated, f_report, f_calls, f_ret,
     f_probe, f_diag, f_nmap, f_io, f_done, mainVars, guiVars >>

envVars == << ip_list, max_containers, flag_sim, feVars >>

schedVars ==
  << ip_list, max_containers, flag_sim, proc_result, pc, n_submitted, future,
     result, stage, work_queue, idle_semaphore, num_threads, w_get, w_release,
     shutdown, waiter, prefinished, pending_fs, waiter_finished, completed,
     updates, branch_taken, completion_order, n_prefinished, launches,
     submits >>

vars ==
  << ip_list, max_containers, flag_sim, proc_result, pc, n_submitted, future,
     result, stage, work_queue, idle_semaphore, num_threads, w_get, w_release,
     shutdown, waiter, prefinished, pending_fs, waiter_finished, completed,
     updates, branch_taken, completion_order, n_prefinished, launches,
     submits, feVars >>

Jobs == 1..Len(ip_list)

\* Lists of distinct hosts: what every caller passes (list(set(...)) or [ip]).
\* Hosts are interchangeable, so a list is taken in ascending order of name.
HostLists ==
  UNION { { s \in [1..n -> Hosts] : \A a, b \in 1..n : a < b => s[a] < s[b] }
          : n \in 1..MaxHosts }

Range(s) == { s[k] : k \in DOMAIN s }

\* Mutant of max_workers: the pool is created without the caller's limit,
\* one worker per submitted host.
max_workers_per_host == Len(ip_list)

\* ThreadPoolExecutor(max_workers=int(max_containers)): the size of the pool.
max_workers == max_containers

\* Jobs a worker thread is busy with (inside work_item.run()).
Busy == { j \in Jobs : stage[j] \in {"body", "process"} }

\* Jobs whose external scan process is alive.
ProcessRunning == { j \in Jobs : stage[j] = "process" }

NoIp == << >>

NoRet == [kind |-> "none", val |-> 0]

\* main's state while only the library is looked at.
MainOff ==
  /\ m_pc = "off"
  /\ m_front = "none"
  /\ m_limit = << >>
  /\ m_file = << >>
  /\ m_kept = FALSE
  /\ m_rejected = FALSE
  /\ m_jobs = "none"
  /\ m_logs = "unread"
  /\ m_status = NoRet
  /\ m_clear = "none"

MaxScans == 2

Scans == 1..MaxScans

\* The App as __init__ leaves it: no process, Stop disabled, and open_how_to
\* has disabled "How To", enabled "Start Orchestrator" and hidden the form.
AppOff ==
  /\ a_thread = [s \in Scans |-> "none"]
  /\ a_proc = [s \in Scans |-> "none"]
  /\ a_current = 0
  /\ a_stop_btn = "disabled"
  /\ a_man_btn = "disabled"
  /\ a_dyn_btn = "enabled"
  /\ a_form = "hidden"
  /\ a_stack = << >>
  /\ a_window = "open"
  /\ a_done = [s \in Scans |-> 0]
  /\ a_close = "none"
  /\ a_stopped = "none"
  /\ a_reentered = FALSE
  /\ a_waits = [s \in Scans |-> 0]
  /\ a_failed = FALSE

\* No function is looked at on its own.
PureOff ==
  /\ p_pc = "off"
  /\ p_in = << >>
  /\ p_out = << >>

\* No output of a GUI scan is looked at.
PipeOff ==
  /\ c_prog = << >>
  /\ c_at = 1
  /\ c_exited = FALSE
  /\ o_pipe = << >>
  /\ e_pipe = << >>
  /\ s_pc = "off"
  /\ s_logged = << >>
  /\ t_pc = "off"

SideOff == PureOff /\ PipeOff

\* The GUI's scan thread while no run was started from it.
StopOff ==
  /\ g_thread = "off"
  /\ current_process = "None"
  /\ stop_btn = "disabled"
  /\ g_container = "none"
  /\ g_stop = << >>
  /\ g_pc = "idle"
  /\ g_signal = << >>

\* The GUI's state while no run was started from it.
GuiOff ==
  /\ StopOff
  /\ AppOff
  /\ SideOff

\* The callers' state while only the scheduler is looked at.
FrontIdle ==
  /\ f_mode = "none"
  /\ f_pc = "idle"
  /\ f_flag = FALSE
  /\ f_cont = 1
  /\ f_targets = << >>
  /\ host_list = << >>
  /\ f_idx = 0
  /\ active_hosts = {}
  /\ current_ip = NoIp
  /\ active_ips = << >>
  /\ f_pending = {}
  /\ repeated = {}
  /\ f_report = << >>
  /\ f_calls = << >>
  /\ f_ret = NoRet
  /\ f_probe = "none"
  /\ f_diag = << >>
  /\ f_nmap = << >>
  /\ f_io = "none"
  /\ f_done = << >>
  /\ MainOff

\* The scheduler's state on entry to start_docker_containers(hosts, limit, fs),
\* the calling thread standing at `at`.
SchedState(hosts, limit, fs, at) ==
  /\ ip_list = hosts
  /\ max_containers = limit
  /\ flag_sim = fs
  /\ proc_result = [h \in Range(hosts) |-> NotRun]
  /\ pc = at
  /\ n_submitted = 0
  /\ future = [j \in DOMAIN hosts |-> "NONE"]
  /\ result = [j \in DOMAIN hosts |-> NoResult]
  /\ stage = [j \in DOMAIN hosts |-> "idle"]
  /\ work_queue = << >>
  /\ idle_semaphore = 0
  /\ num_threads = 0
  /\ w_get = 0
  /\ w_release = 0
  /\ shutdown = FALSE
  /\ waiter = FALSE
  /\ prefinished = {}
  /\ pending_fs = {}
  /\ waiter_finished = << >>
  /\ completed = 0
  /\ updates = << >>
  /\ branch_taken = [j \in DOMAIN hosts |-> "none"]
  /\ completion_order = << >>
  /\ n_prefinished = 0
  /\ launches = [j \in DOMAIN hosts |-> 0]
  /\ submits = [h \in Range(hosts) |-> 0]

Init ==
  /\ \E hosts \in HostLists, limit \in 1..MaxLimit, fs \in BOOLEAN :
       SchedState(hosts, limit, fs, "submit")
  /\ FrontIdle
  /\ GuiOff

\* Mutant of Submit: a host is submitted when the job submitted before it has
\* finished.
SubmitAfterPrevious ==
  /\ pc = "submit"
  /\ n_submitted < Len(ip_list)
  /\ IF n_submitted = 0 THEN TRUE ELSE future[n_submitted] = "FINISHED"
  /\ LET j == n_submitted + 1 IN
       /\ future' = [future EXCEPT ![j] = "PENDING"]
       /\ work_queue' = Append(work_queue, j)
       /\ submits' = [submits EXCEPT ![ip_list[j]] = @ + 1]
  /\ n_submitted' = n_submitted + 1
  /\ pc' = "adjust"
  /\ UNCHANGED << envVars, n_prefinished, proc_result, result, stage,
                  idle_semaphore, num_threads, w_get, w_release, shutdown,
                  waiter, prefinished, pending_fs, waiter_finished, completed,
                  updates, branch_taken, completion_order, launches >>

\* ---------------------------------------------------- the submitting thread
\* executor.submit(run_container, ip, flag_sim), first half: the Future is
\* created and its work item is put on the queue.
Submit ==
  /\ pc = "submit"
  /\ n_submitted < Len(ip_list)
  /\ LET j == n_submitted + 1 IN
       /\ future' = [future EXCEPT ![j] = "PENDING"]
       /\ work_queue' = Append(work_queue, j)
       /\ submits' = [submits EXCEPT ![ip_list[j]] = @ + 1]
  /\ n_submitted' = n_submitted + 1
  /\ pc' = "adjust"
  /\ UNCHANGED << envVars, n_prefinished, proc_result, result, stage,
                  idle_semaphore, num_threads, w_get, w_release, shutdown,
                  waiter, prefinished, pending_fs, waiter_finished, completed,
                  updates, branch_taken, completion_order, launches >>

\* executor._adjust_thread_count(): take an idle token if there is one,
\* otherwise spawn a worker thread while fewer than max_workers exist.
AdjustThreadCount ==
  /\ pc = "adjust"
  /\ IF idle_semaphore > 0
       THEN /\ idle_semaphore' = idle_semaphore - 1
            /\ UNCHANGED << num_threads, w_get >>
       ELSE IF num_threads < max_workers
         THEN /\ num_threads' = num_threads + 1
              /\ w_get' = w_get + 1
              /\ UNCHANGED idle_semaphore
         ELSE UNCHANGED << idle_semaphore, num_threads, w_get >>
  /\ pc' = IF n_submitted < Len(ip_list) THEN "submit" ELSE "as_completed"
  /\ UNCHANGED << envVars, n_prefinished, proc_result, n_submitted,
                  future, result, stage, work_queue, w_release, shutdown,
                  waiter, prefinished, pending_fs, waiter_finished, completed,
                  updates, branch_taken, completion_order, launches, submits >>

\* ------------------------------------------------------- the worker threads
\* _worker: work_queue.get() returns a work item; work_item.run() marks the
\* future running and enters run_container.
WorkerGet ==
  /\ w_get > 0
  /\ work_queue # << >>
  /\ LET j == Head(work_queue) IN
       /\ future' = [future EXCEPT ![j] = "RUNNING"]
       /\ stage' = [stage EXCEPT ![j] = "body"]
  /\ work_queue' = Tail(work_queue)
  /\ w_get' = w_get - 1
  /\ UNCHANGED << envVars, n_prefinished, proc_result, pc,
                  n_submitted, result, idle_semaphore, num_threads, w_release,
                  shutdown, waiter, prefinished, pending_fs, waiter_finished,
                  completed, updates, branch_taken, completion_order, launches,
                  submits >>

\* Mutant of Finish: the worker thread of a job that did not succeed ends
\* with the job instead of returning to the queue.
FinishThreadDies(j) ==
  LET r == run_container(proc_result'[ip_list[j]], flag_sim) IN
    /\ result' = [result EXCEPT ![j] = r]
    /\ future' = [future EXCEPT ![j] = "FINISHED"]
    /\ stage' = [stage EXCEPT ![j] = "done"]
    /\ completion_order' = Append(completion_order, j)
    /\ waiter_finished' = IF waiter THEN Append(waiter_finished, j) ELSE waiter_finished
    /\ w_release' = IF r.kind = "ret" /\ r.code = 0 THEN w_release + 1 ELSE w_release

\* Mutant of Finish: a job that did not succeed is put back to pending to be
\* run again instead of being finished.
FinishOrRetry(j) ==
  LET r == run_container(proc_result'[ip_list[j]], flag_sim)
      ok == r.kind = "ret" /\ r.code = 0
  IN /\ result' = [result EXCEPT ![j] = IF ok THEN r ELSE @]
     /\ future' = [future EXCEPT ![j] = IF ok THEN "FINISHED" ELSE "PENDING"]
     /\ stage' = [stage EXCEPT ![j] = IF ok THEN "done" ELSE "idle"]
     /\ completion_order' = IF ok THEN Append(completion_order, j) ELSE completion_order
     /\ waiter_finished' = IF ok /\ waiter THEN Append(waiter_finished, j) ELSE waiter_finished
     /\ w_release' = w_release + 1

\* work_item.run() stores the outcome of run_container (for what the scan of
\* the host has just been found to do) in the future (set_result /
\* set_exception), which also notifies an installed waiter; the worker thread
\* survives and goes on to release the idle semaphore.
Finish(j) ==
  /\ result' = [result EXCEPT ![j] = run_container(proc_result'[ip_list[j]], flag_sim)]
  /\ future' = [future EXCEPT ![j] = "FINISHED"]
  /\ stage' = [stage EXCEPT ![j] = "done"]
  /\ completion_order' = Append(completion_order, j)
  /\ waiter_finished' = IF waiter THEN Append(waiter_finished, j) ELSE waiter_finished
  /\ w_release' = w_release + 1

\* subprocess.run spawns the external scan process of job j.
LaunchProcess(j) ==
  /\ stage[j] = "body"
  /\ proc_result' = [proc_result EXCEPT ![ip_list[j]] = StillRunning]
  /\ stage' = [stage EXCEPT ![j] = "process"]
  /\ launches' = [launches EXCEPT ![j] = @ + 1]
  /\ UNCHANGED << envVars, n_prefinished, pc,
                  n_submitted, future, result, work_queue, idle_semaphore,
                  num_threads, w_get, w_release, shutdown, waiter, prefinished,
                  pending_fs, waiter_finished, completed, updates, branch_taken,
                  completion_order, submits >>

\* run_container ends without a process: Popen raised, or an exception left
\* the function.
LaunchFail(j) ==
  /\ stage[j] = "body"
  /\ \E pr \in NoProcessResults :
       proc_result' = [proc_result EXCEPT ![ip_list[j]] = pr]
  /\ Finish(j)
  /\ UNCHANGED << envVars, n_prefinished, pc,
                  n_submitted, work_queue, idle_semaphore, num_threads, w_get,
                  shutdown, waiter, prefinished, pending_fs, completed, updates,
                  branch_taken, launches, submits >>

\* Mutant of ProcessExit: a process that exits non-zero is launched a second
\* time before the job is finished.
ProcessExitRetry(j) ==
  /\ stage[j] = "process"
  /\ \E c \in ExitCodes :
       IF c # 0 /\ launches[j] < 2
         THEN /\ stage' = [stage EXCEPT ![j] = "body"]
              /\ UNCHANGED << proc_result, result, future, completion_order,
                              waiter_finished, w_release >>
         ELSE /\ proc_result' = [proc_result EXCEPT ![ip_list[j]] =
                                   [type |-> "exit", code |-> c, exc |-> ""]]
              /\ Finish(j)
  /\ UNCHANGED << envVars, n_prefinished, pc, n_submitted, work_queue,
                  idle_semaphore, num_threads, w_get, shutdown, waiter,
                  prefinished, pending_fs, completed, updates, branch_taken,
                  launches, submits >>

\* The external process of job j exits with some exit code; run_container
\* classifies it.
ProcessExit(j) ==
  /\ stage[j] = "process"
  /\ \E c \in ExitCodes :
       proc_result' = [proc_result EXCEPT ![ip_list[j]] =
                         [type |-> "exit", code |-> c, exc |-> ""]]
  /\ Finish(j)
  /\ UNCHANGED << envVars, n_prefinished, pc,
                  n_submitted, work_queue, idle_semaphore, num_threads, w_get,
                  shutdown, waiter, prefinished, pending_fs, completed, updates,
                  branch_taken, launches, submits >>

\* _worker after work_item.run(): executor._idle_semaphore.release(), then
\* back to work_queue.get().
WorkerRelease ==
  /\ w_release > 0
  /\ idle_semaphore' = idle_semaphore + 1
  /\ w_release' = w_release - 1
  /\ w_get' = w_get + 1
  /\ UNCHANGED << envVars, n_prefinished, proc_result, pc,
                  n_submitted, future, result, stage, work_queue, num_threads,
                  shutdown, waiter, prefinished, pending_fs, waiter_finished,
                  completed, updates, branch_taken, completion_order, launches,
                  submits >>

\* _worker receives the None sentinel of shutdown() and returns.
WorkerExit ==
  /\ shutdown
  /\ w_get > 0
  /\ work_queue = << >>
  /\ w_get' = w_get - 1
  /\ UNCHANGED << envVars, n_prefinished, proc_result, pc,
                  n_submitted, future, result, stage, work_queue,
                  idle_semaphore, num_threads, w_release, shutdown, waiter,
                  prefinished, pending_fs, waiter_finished, completed, updates,
                  branch_taken, completion_order, launches, submits >>

\* ------------------------------------------------------------ the drain loop
\* as_completed(future_to_ip): under the futures' locks, split them into the
\* already finished ones and the pending ones and install the waiter.
AsCompleted ==
  /\ pc = "as_completed"
  /\ prefinished' = { j \in Jobs : future[j] = "FINISHED" }
  /\ n_prefinished' = Cardinality({ j \in Jobs : future[j] = "FINISHED" })
  /\ pending_fs' = { j \in Jobs : future[j] # "FINISHED" }
  /\ waiter' = TRUE
  /\ pc' = "drain"
  /\ UNCHANGED << envVars, proc_result, n_submitted,
                  future, result, stage, work_queue, idle_semaphore,
                  num_threads, w_get, w_release, shutdown, waiter_finished,
                  completed, updates, branch_taken, completion_order, launches,
                  submits >>

\* Mutant of Yielded: the notified futures are handed out newest first.
YieldedNewestFirst(q) ==
  [next |-> q[Len(q)], rest |-> SubSeq(q, 1, Len(q) - 1)]

\* as_completed hands out the futures its waiter was notified of in the order
\* of the notifications: the oldest first.
Yielded(q) ==
  [next |-> Head(q), rest |-> Tail(q)]

\* Mutant of DrainBody: the first future drained is taken as a success
\* whatever it holds.
DrainBodyFirstOk(j) ==
  LET branch == IF completed = 0 THEN "ok" ELSE DrainBranch(result[j])
      n == completed + DrainAdvance(branch)
  IN /\ branch_taken' = [branch_taken EXCEPT ![j] = branch]
     /\ completed' = n
     /\ updates' = Append(updates, [ip |-> ip_list[j], completed |-> n,
                                    total |-> Len(ip_list)])

\* One iteration of the drain loop for the yielded future j: future.result(),
\* the matching branch, and the finally clause (advance and emit).
DrainBody(j) ==
  LET branch == DrainBranch(result[j])
      n == completed + DrainAdvance(branch)
  IN /\ branch_taken' = [branch_taken EXCEPT ![j] = branch]
     /\ completed' = n
     /\ updates' = Append(updates, [ip |-> ip_list[j], completed |-> n,
                                    total |-> Len(ip_list)])

\* as_completed yields a future of its initial finished set; the set has no
\* order, any member may come next.
DrainPrefinished(j) ==
  /\ pc = "drain"
  /\ j \in prefinished
  /\ prefinished' = prefinished \ {j}
  /\ DrainBody(j)
  /\ UNCHANGED << envVars, n_prefinished, proc_result, pc,
                  n_submitted, future, result, stage, work_queue,
                  idle_semaphore, num_threads, w_get, w_release, shutdown,
                  waiter, pending_fs, waiter_finished, completion_order,
                  launches, submits >>

\* as_completed yields the next future the waiter was notified of.
DrainWaiter ==
  /\ pc = "drain"
  /\ prefinished = {}
  /\ waiter_finished # << >>
  /\ LET y == Yielded(waiter_finished) IN
       /\ pending_fs' = pending_fs \ {y.next}
       /\ DrainBody(y.next)
       /\ waiter_finished' = y.rest
  /\ UNCHANGED << envVars, n_prefinished, proc_result, pc,
                  n_submitted, future, result, stage, work_queue,
                  idle_semaphore, num_threads, w_get, w_release, shutdown,
                  waiter, prefinished, completion_order, launches, submits >>

\* Mutant of Shutdown: the drain loop is left while futures are pending, and
\* the pool is shut down without waiting (shutdown(wait=False)).
ShutdownNoWait ==
  /\ pc = "drain"
  /\ shutdown' = TRUE
  /\ pc' = "done"
  /\ UNCHANGED << envVars, n_prefinished, proc_result, n_submitted,
                  future, result, stage, work_queue, idle_semaphore,
                  num_threads, w_get, w_release, waiter, prefinished,
                  pending_fs, waiter_finished, completed, updates, branch_taken,
                  completion_order, launches, submits >>

\* as_completed is exhausted; leaving the `with` block calls
\* executor.shutdown(wait=True).
Shutdown ==
  /\ pc = "drain"
  /\ prefinished = {}
  /\ pending_fs = {}
  /\ shutdown' = TRUE
  /\ pc' = "join"
  /\ UNCHANGED << envVars, n_prefinished, proc_result, n_submitted,
                  future, result, stage, work_queue, idle_semaphore,
                  num_threads, w_get, w_release, waiter, prefinished,
                  pending_fs, waiter_finished, completed, updates, branch_taken,
                  completion_order, launches, submits >>

\* shutdown(wait=True) has joined every worker thread;
\* start_docker_containers returns.
Join ==
  /\ pc = "join"
  /\ w_get = 0
  /\ w_release = 0
  /\ Busy = {}
  /\ pc' = "done"
  /\ UNCHANGED << envVars, n_prefinished, proc_result, n_submitted,
                  future, result, stage, work_queue, idle_semaphore,
                  num_threads, w_get, w_release, shutdown, waiter, prefinished,
                  pending_fs, waiter_finished, completed, updates, branch_taken,
                  completion_order, launches, submits >>

Next ==
  \/ Submit
  \/ AdjustThreadCount
  \/ WorkerGet
  \/ \E j \in Jobs : LaunchProcess(j)
  \/ \E j \in Jobs : LaunchFail(j)
  \/ \E j \in Jobs : ProcessExit(j)
  \/ WorkerRelease
  \/ WorkerExit
  \/ AsCompleted
  \/ \E j \in Jobs : DrainPrefinished(j)
  \/ DrainWaiter
  \/ Shutdown
  \/ Join

Spec == Init /\ [][Next]_vars

\* ====================================== target resolution and liveness probing
\* ----------------------------------------------------------------- texts
\* A text (str) is a sequence of atoms. Of an address only the host it names
\* and its spelling matter: ToString(h) stands for the dotted quad of host h,
\* which is the one spelling ipaddress accepts for an IPv4 address.
Addr(h) == << ToString(h) >>

\* Two spellings of one IPv6 address (compressed, zeros written out).
Addr6(h) == << "::", ToString(h) >>

Addr6Long(h) == << "0:0:", ToString(h) >>

Nets == Hosts

\* The subnet n in CIDR notation, as str() of a network prints it.
Cidr(n) == << "net", ToString(n), "/24" >>

\* The same subnet written with host bits set.
CidrHostBits(n) == << "net", ToString(n), "+1", "/24" >>

\* str() of the one-address network of host h.
Host32(h) == << ToString(h), "/32" >>

\* A text that is neither an address nor a network.
BadText == << "x" >>

IpTexts == UNION { { Addr(h), Addr6(h), Addr6Long(h) } : h \in Hosts }

SubnetTexts ==
  { Addr(h) : h \in Hosts } \cup { Host32(h) : h \in Hosts }
    \cup { Cidr(n) : n \in Nets } \cup { CidrHostBits(n) : n \in Nets }

\* An IPv4Address / IPv6Address object: equal and hashed by value.
Address(v, h) == [version |-> v, id |-> h]

\* An IPv4Network object: the one-address network of a host or a subnet.
Network(k, n) == [of |-> k, id |-> n]

NoObject == [version |-> 0, id |-> 0]

\* validate_ip(ip) = ipaddress.ip_address(ip); ok = FALSE stands for
\* ValueError.
validate_ip(t) ==
  IF \E h \in Hosts : t = Addr(h)
    THEN [ok |-> TRUE, obj |-> Address(4, CHOOSE h \in Hosts : t = Addr(h))]
  ELSE IF \E h \in Hosts : t \in { Addr6(h), Addr6Long(h) }
    THEN [ok |-> TRUE,
          obj |-> Address(6, CHOOSE h \in Hosts : t \in { Addr6(h), Addr6Long(h) })]
  ELSE [ok |-> FALSE, obj |-> NoObject]

\* validate_subnet(subnet) = ipaddress.ip_network(subnet, strict=False): host
\* bits are dropped, a bare address is its one-address network.
validate_subnet(t) ==
  IF \E h \in Hosts : t \in { Addr(h), Host32(h) }
    THEN [ok |-> TRUE,
          obj |-> Network("host", CHOOSE h \in Hosts : t \in { Addr(h), Host32(h) })]
  ELSE IF \E n \in Nets : t \in { Cidr(n), CidrHostBits(n) }
    THEN [ok |-> TRUE,
          obj |-> Network("net", CHOOSE n \in Nets : t \in { Cidr(n), CidrHostBits(n) })]
  ELSE [ok |-> FALSE, obj |-> NoObject]

\* str(obj) of an address object.
AddressStr(a) == IF a.version = 4 THEN Addr(a.id) ELSE Addr6(a.id)

\* Mutant of NetworkStr: the prefix length is not printed, so the line of a
\* subnet reads as an address.
NetworkStrNoPrefix(n) == Addr(n.id)

\* str(obj) of a network object, the line written back to the list file.
NetworkStr(n) == IF n.of = "host" THEN Host32(n.id) ELSE Cidr(n.id)

\* ------------------------------------------------------------ nmap reports
\* "(10.0.0.h)", the last token of "Nmap scan report for name (10.0.0.h)".
Parenthesised(h) == << "(", ToString(h), ")" >>

DnsName == << "n" >>

\* What nmap prints after "Nmap scan report for": the address, or the
\* resolved name followed by the address in parentheses.
ReportTails ==
  { << Addr(h) >> : h \in Hosts } \cup { << DnsName, Parenthesised(h) >> : h \in Hosts }

\* A line of the report: an announcement ("Nmap scan report for" + tail), a
\* confirmation ("Host is up ..."), or any other line.
ReportLines ==
  [kind : {"report"}, tail : ReportTails] \cup [kind : {"up", "other"}, tail : {<< >>}]

\* c in tok
HasChar(tok, c) == \E k \in 1..Len(tok) : tok[k] = c

\* tok.split(c)[-1]: what follows the last c, all of tok when c is absent.
AfterLast(tok, c) ==
  LET ks == { k \in 1..Len(tok) : tok[k] = c } IN
    IF ks = {} THEN tok
    ELSE LET m == CHOOSE k \in ks : \A x \in ks : x <= k
         IN SubSeq(tok, m + 1, Len(tok))

RECURSIVE StripLeft(_, _)
StripLeft(tok, c) ==
  IF tok # << >> /\ Head(tok) = c THEN StripLeft(Tail(tok), c) ELSE tok

RECURSIVE StripRight(_, _)
StripRight(tok, c) ==
  IF tok # << >> /\ tok[Len(tok)] = c
    THEN StripRight(SubSeq(tok, 1, Len(tok) - 1), c)
    ELSE tok

\* tok.strip(c): leading and trailing c removed.
Strip(tok, c) == StripRight(StripLeft(tok, c), c)

\* line.split()[-1]
LastToken(line) == line.tail[Len(line.tail)]

\* scan_subnet_and_save_results: the address taken from an announcement.
SubnetParseIp(line) ==
  LET ip == LastToken(line) IN
    IF HasChar(ip, "(") THEN Strip(AfterLast(ip, "("), ")") ELSE ip

\* Mutant of BatchParseIp: the last token is taken as it stands.
BatchParseIpLastToken(line) == LastToken(line)

\* scan_multiple_subnets_manager: the address taken from an announcement.
BatchParseIp(line) ==
  LET ip == LastToken(line) IN
    IF HasChar(ip, "(") THEN Strip(AfterLast(ip, "("), ")") ELSE ip

\* The lists list(S) may return for a set S: its members once each, in any
\* order.
Enumerations(S) ==
  { s \in [1..Cardinality(S) -> S] :
      \A a, b \in 1..Cardinality(S) : a # b => s[a] # s[b] }

\* Mutant of Dedup: the list is passed on as collected.
DedupMissing(xs) == { xs }

\* list(set(xs))
Dedup(xs) == Enumerations(Range(xs))

\* Entries of xs that occur more than once.
Duplicated(xs) ==
  { xs[a] : a \in { k \in DOMAIN xs : \E b \in DOMAIN xs : b # k /\ xs[b] = xs[k] } }

\* --------------------------------------------------------- probe outcomes
\* nmap is run without -6 and refuses a target written with colons: only an
\* IPv4 target can be reported up.
CanBeUp(target) == \E h \in Hosts : target = Addr(h)

\* What `nmap -sn <target>` followed by stdout.decode() does in
\* is_ip_active: it raises, or yields an output whose summary does or does
\* not read "Nmap done: 1 IP address (1 host up)".
IsActiveOutcomes(target) ==
  [type : {"ok"}, up : IF CanBeUp(target) THEN BOOLEAN ELSE {FALSE}, exc : {""}]
    \cup [type : {"raise"}, up : {FALSE},
          exc : {"FileNotFoundError", "CalledProcessError", "PermissionError",
                 "UnicodeDecodeError"}]

\* Mutant of IsActiveHandlers: the clause for subprocess.SubprocessError is
\* missing.
IsActiveHandlersToolOnly ==
  << [cls |-> "FileNotFoundError", code |-> "False"] >>

IsActiveHandlers ==
  << [cls |-> "FileNotFoundError", code |-> "False"],
     [cls |-> "SubprocessError",   code |-> "False"] >>

\* is_ip_active(ip) on outcome o: the value returned or, for an exception no
\* clause catches, the exception leaving the function.
is_ip_active(o) ==
  IF o.type = "ok" THEN [kind |-> "ret", val |-> o.up]
  ELSE IF FirstHandler(IsActiveHandlers, o.exc, 1) = "False"
    THEN [kind |-> "ret", val |-> FALSE]
    ELSE [kind |-> "exc", val |-> FALSE]

\* What running nmap on a subnet or on a list file and decoding its output
\* can raise.
ProbeErrors ==
  {"FileNotFoundError", "PermissionError", "UnicodeDecodeError",
   "CalledProcessError", "OSError"}

\* What opening, reading and rewriting the list file can raise.
FileErrors ==
  {"FileNotFoundError", "PermissionError", "UnicodeDecodeError", "OSError"}

\* except clauses of scan_multiple_subnets_manager.
BatchHandlers ==
  << [cls |-> "FileNotFoundError",  code |-> -3],
     [cls |-> "PermissionError",    code |-> -3],
     [cls |-> "UnicodeDecodeError", code |-> -3],
     [cls |-> "CalledProcessError", code |-> -3],
     [cls |-> "Exception",          code |-> -5] >>

\* f"/usr/Orchestrator/logs/{ip}_results.json" for an entry of ip_list given
\* as a text; an address object is formatted with str().
OutputFile(text) == << "/usr/Orchestrator/logs/" >> \o text \o << "_results.json" >>

\* A call of start_docker_containers.
Call(hosts, limit, fs) ==
  [ip_list |-> hosts, max_containers |-> limit, flag_sim |-> fs]

Returned(v) == [kind |-> "ret", val |-> v]

Raised == [kind |-> "exc", val |-> 0]

\* How the run was started: a single address typed or given as --single_ip,
\* addresses typed or read from a file, a subnet, a file of subnets.
Modes ==
  {"single_ip", "single_ip_arg", "ip_list_manual", "ip_list_file", "subnet",
   "subnet_list"}

\* Modes whose prompts pass flag_sim = False.
PlainOnlyModes == {"single_ip", "ip_list_manual", "ip_list_file"}

\* Modes in which address objects, not texts, are handed on.
ObjectModes == {"single_ip_arg", "ip_list_file"}

ListsOf(S) == UNION { [1..n -> S] : n \in 0..MaxEntries }

\* The targets a run of each mode can be given. main validates a single
\* address and a single subnet before it calls the library.
TargetsOf(mode) ==
  CASE mode \in {"single_ip", "single_ip_arg"} -> { << t >> : t \in IpTexts }
    [] mode \in {"ip_list_manual", "ip_list_file"} -> ListsOf(IpTexts \cup {BadText})
    [] mode = "subnet" -> { << t >> : t \in SubnetTexts }
    [] OTHER -> ListsOf(SubnetTexts \cup {BadText})

FrontInit ==
  /\ SchedState(<< >>, 1, FALSE, "idle")
  /\ f_mode \in Modes
  /\ f_pc = "start"
  /\ f_flag \in IF f_mode \in PlainOnlyModes THEN {FALSE} ELSE BOOLEAN
  /\ f_cont \in IF f_mode \in {"subnet", "subnet_list"} THEN 1..MaxLimit ELSE {1}
  /\ f_targets \in TargetsOf(f_mode)
  /\ host_list = << >>
  /\ f_idx = 0
  /\ active_hosts = {}
  /\ current_ip = NoIp
  /\ active_ips = << >>
  /\ f_pending = {}
  /\ repeated = {}
  /\ f_report = << >>
  /\ f_calls = << >>
  /\ f_ret = NoRet
  /\ f_probe = "none"
  /\ f_diag = << >>
  /\ f_nmap = << >>
  /\ f_io = "none"
  /\ f_done = << >>
  /\ MainOff
  /\ GuiOff

\* The manager returns v without (another) call of the scheduler.
FrontReturn(v) ==
  /\ f_ret' = v
  /\ f_pc' = "done"

\* Mutant of scan_single_ip: the job is submitted whatever is_ip_active has
\* returned.
scan_single_ip_unchecked ==
  /\ f_mode \in {"single_ip", "single_ip_arg"}
  /\ f_pc = "start"
  /\ LET text == f_targets[1]
         ip == IF f_mode = "single_ip_arg" THEN validate_ip(text).obj ELSE text
     IN \E o \in IsActiveOutcomes(text) :
          LET r == is_ip_active(o) IN
            /\ f_calls' = IF r.kind = "ret"
                            THEN Append(f_calls, Call(<< ip >>, 1, f_flag))
                            ELSE f_calls
            /\ FrontReturn(IF r.kind = "ret" THEN Returned(r.val) ELSE Raised)
            /\ f_probe' = IF o.type = "ok" THEN "ok" ELSE o.exc
            /\ f_nmap' = IF f_mode = "single_ip_arg" THEN AddressStr(ip) ELSE ip
  /\ UNCHANGED << schedVars, mainVars, guiVars, f_io, f_done, f_diag, f_report, f_mode, f_flag, f_cont, f_targets, host_list,
                  f_idx, active_hosts, current_ip, active_ips, f_pending,
                  repeated >>

\* ------------------------------------------------------------ single address
\* scan_single_ip(ip, flag_sim): probe, then one job for the address.
scan_single_ip ==
  /\ f_mode \in {"single_ip", "single_ip_arg"}
  /\ f_pc = "start"
  /\ LET text == f_targets[1]
         ip == IF f_mode = "single_ip_arg" THEN validate_ip(text).obj ELSE text
     IN \E o \in IsActiveOutcomes(text) :
          LET r == is_ip_active(o) IN
            /\ f_calls' = IF r.kind = "ret" /\ r.val
                            THEN Append(f_calls, Call(<< ip >>, 1, f_flag))
                            ELSE f_calls
            /\ FrontReturn(IF r.kind = "ret" THEN Returned(r.val) ELSE Raised)
            /\ f_probe' = IF o.type = "ok" THEN "ok" ELSE o.exc
            /\ f_nmap' = IF f_mode = "single_ip_arg" THEN AddressStr(ip) ELSE ip
  /\ UNCHANGED << schedVars, mainVars, guiVars, f_io, f_done, f_diag, f_report, f_mode, f_flag, f_cont, f_targets, host_list,
                  f_idx, active_hosts, current_ip, active_ips, f_pending,
                  repeated >>

\* ------------------------------------------------------- the limit as text
\* A limit is typed as a text over decimal digits, a sign, a letter and the
\* superscript two ("sup2"), which str.isdigit() accepts and int() refuses.
DecimalDigits == { ToString(d) : d \in 0..MaxLimit }

DigitValue(c) == CHOOSE d \in 0..MaxLimit : ToString(d) = c

\* str.isdigit()
isdigit(t) ==
  t # << >> /\ \A k \in DOMAIN t : t[k] \in DecimalDigits \cup {"sup2"}

RECURSIVE Decimal(_)
Decimal(t) ==
  IF t = << >> THEN 0
  ELSE 10 * Decimal(SubSeq(t, 1, Len(t) - 1)) + DigitValue(t[Len(t)])

\* int(t); ok = FALSE stands for ValueError.
int(t) ==
  LET neg == t # << >> /\ Head(t) = "-"
      digits == IF neg THEN Tail(t) ELSE t
  IN IF digits # << >> /\ \A k \in DOMAIN digits : digits[k] \in DecimalDigits
       THEN [ok |-> TRUE, val |-> IF neg THEN 0 - Decimal(digits) ELSE Decimal(digits)]
       ELSE [ok |-> FALSE, val |-> 0]

\* The texts a limit is given as: up to two characters, no value above
\* MaxLimit.
LimitTexts ==
  { t \in UNION { [1..n -> DecimalDigits \cup {"-", "x", "sup2"}] : n \in 0..2 } :
      int(t).ok => int(t).val <= MaxLimit }

\* One round of the loop of get_positive_integer_input on the line typed:
\* the value returned, "again" for another round, "exc" for the ValueError
\* of int() that leaves the function.
get_positive_integer_input(t) ==
  IF ~isdigit(t) THEN [kind |-> "again", val |-> 0]
  ELSE IF ~int(t).ok THEN [kind |-> "exc", val |-> 0]
  ELSE IF int(t).val > 0 THEN [kind |-> "ret", val |-> int(t).val]
  ELSE [kind |-> "again", val |-> 0]

\* ----------------------------------------------------------- address list
\* The entries that pass validate_ip: typed entries are kept as typed, file
\* lines are replaced by the address objects.
ValidatedIps(entries, asObjects) ==
  LET valid == SelectSeq(entries, LAMBDA t : validate_ip(t).ok) IN
    [k \in DOMAIN valid |-> IF asObjects THEN validate_ip(valid[k]).obj ELSE valid[k]]

\* scan_ip_list_manager up to the submission of the probes: the entries are
\* collected; no valid entry returns -4, an unreadable file -3.
IpListLoad ==
  /\ f_mode \in {"ip_list_manual", "ip_list_file"}
  /\ f_pc = "start"
  /\ \/ /\ f_mode = "ip_list_file"
        /\ FrontReturn(Returned(-3))
        /\ UNCHANGED << host_list, f_pending, f_diag >>
     \/ LET ips == ValidatedIps(f_targets, f_mode = "ip_list_file") IN
          /\ host_list' = ips
          /\ f_diag' = SelectSeq(f_targets, LAMBDA t : ~validate_ip(t).ok)
          /\ IF ips = << >>
               THEN /\ FrontReturn(Returned(-4))
                    /\ UNCHANGED f_pending
               ELSE /\ f_pc' = "probe"
                    /\ f_pending' = DOMAIN ips
                    /\ UNCHANGED f_ret
  /\ UNCHANGED << schedVars, mainVars, guiVars, f_nmap, f_io, f_done, f_probe, f_report, f_mode, f_flag, f_cont, f_targets, f_idx,
                  active_hosts, current_ip, active_ips, repeated, f_calls >>

\* Mutant of IpListProbeDone: a probe that raises ends the as_completed loop,
\* the probes still pending are not looked at.
IpListProbeDoneAbort(i) ==
  /\ f_pc = "probe"
  /\ i \in f_pending
  /\ LET ip == host_list[i]
         text == IF f_mode = "ip_list_file" THEN AddressStr(ip) ELSE ip
     IN \E o \in IsActiveOutcomes(text) :
          LET r == is_ip_active(o) IN
            /\ active_ips' = IF r.kind = "ret" /\ r.val
                               THEN Append(active_ips, ip)
                               ELSE active_ips
            /\ f_probe' = IF o.type = "ok" THEN "ok" ELSE o.exc
            /\ f_nmap' = text
            /\ f_done' = [k \in DOMAIN f_done \cup {i} |->
                            IF k # i THEN f_done[k]
                            ELSE IF r.kind = "exc" THEN "raised"
                            ELSE IF r.val THEN "up" ELSE "down"]
            /\ f_pending' = IF r.kind = "exc" THEN {} ELSE f_pending \ {i}
  /\ UNCHANGED << schedVars, mainVars, guiVars, f_io, f_diag, f_report, f_mode, f_pc, f_flag, f_cont, f_targets,
                  host_list, f_idx, active_hosts, current_ip, repeated,
                  f_calls, f_ret >>

\* One round of the as_completed loop: the probe of entry i has finished and
\* its entry is appended to active_ips when the probe returned True.
IpListProbeDone(i) ==
  /\ f_pc = "probe"
  /\ i \in f_pending
  /\ LET ip == host_list[i]
         text == IF f_mode = "ip_list_file" THEN AddressStr(ip) ELSE ip
     IN \E o \in IsActiveOutcomes(text) :
          LET r == is_ip_active(o) IN
            /\ active_ips' = IF r.kind = "ret" /\ r.val
                               THEN Append(active_ips, ip)
                               ELSE active_ips
            /\ f_probe' = IF o.type = "ok" THEN "ok" ELSE o.exc
            /\ f_nmap' = text
            /\ f_done' = [k \in DOMAIN f_done \cup {i} |->
                            IF k # i THEN f_done[k]
                            ELSE IF r.kind = "exc" THEN "raised"
                            ELSE IF r.val THEN "up" ELSE "down"]
  /\ f_pending' = f_pending \ {i}
  /\ UNCHANGED << schedVars, mainVars, guiVars, f_io, f_diag, f_report, f_mode, f_pc, f_flag, f_cont, f_targets,
                  host_list, f_idx, active_hosts, current_ip, repeated,
                  f_calls, f_ret >>

\* After the pool: active_ips is deduplicated and, when it is not empty, the
\* scheduler is called with the limit the user types at the prompt of
\* get_positive_integer_input (a line that is refused is asked again).
IpListFinish ==
  /\ f_pc = "probe"
  /\ f_pending = {}
  /\ \E ips \in Dedup(active_ips) :
       /\ active_ips' = ips
       /\ IF ips # << >>
            THEN \E t \in LimitTexts :
                   LET max_containers_ == get_positive_integer_input(t) IN
                     /\ max_containers_.kind # "again"
                     /\ IF max_containers_.kind = "ret"
                          THEN /\ f_calls' = Append(f_calls, Call(ips, max_containers_.val, FALSE))
                               /\ FrontReturn(Returned(0))
                          ELSE /\ f_calls' = f_calls
                               /\ FrontReturn(Raised)
            ELSE /\ f_calls' = f_calls
                 /\ FrontReturn(Returned(-5))
  /\ repeated' = Duplicated(active_ips)
  /\ UNCHANGED << schedVars, mainVars, guiVars, f_nmap, f_io, f_done, f_diag, f_probe, f_report, f_mode, f_flag, f_cont, f_targets, host_list,
                  f_idx, active_hosts, current_ip, f_pending >>

\* Mutant of subnet_input: every front end passes the text as it was given.
subnet_input_as_given == f_targets[1]

\* ------------------------------------------------------------------ subnet
\* The argument subnet_scan_manager is called with, as str() prints it in the
\* nmap command: the command line passes the network object validate_subnet
\* has returned, the menu the text as it was typed.
subnet_input ==
  IF m_front \in {"cli", "gui"}
    THEN NetworkStr(validate_subnet(f_targets[1]).obj)
    ELSE f_targets[1]

\* subnet_scan_manager -> scan_subnet_and_save_results: nmap runs on the
\* subnet; every exception is caught and yields the empty list, for which
\* subnet_scan_manager returns -4.
SubnetProbe ==
  /\ f_mode = "subnet"
  /\ f_pc = "start"
  /\ \/ \E e \in ProbeErrors :
          /\ IsInstance(e, "Exception")
          /\ FrontReturn(Returned(-4))
          /\ f_probe' = e
     \/ /\ f_pc' = "parse"
        /\ f_probe' = "ok"
        /\ UNCHANGED f_ret
  /\ f_nmap' = subnet_input
  /\ UNCHANGED << schedVars, mainVars, guiVars, f_io, f_done, f_diag, f_report, f_mode, f_flag, f_cont, f_targets, host_list,
                  f_idx, active_hosts, current_ip, active_ips, f_pending,
                  repeated, f_calls >>

\* Mutant of SubnetStep: an announcement that carries a DNS name is skipped.
SubnetStepPlainOnly(hosts, line) ==
  IF line.kind = "report" /\ ~HasChar(LastToken(line), "(")
    THEN hosts \cup { SubnetParseIp(line) }
    ELSE hosts

\* The body of the loop over output.splitlines() of
\* scan_subnet_and_save_results: the set after `line`.
SubnetStep(hosts, line) ==
  IF line.kind = "report" THEN hosts \cup { SubnetParseIp(line) } ELSE hosts

\* One round of the loop over output.splitlines(): an announced address is
\* added to active_hosts.
SubnetParseLine ==
  /\ f_mode = "subnet"
  /\ f_pc = "parse"
  /\ f_idx < MaxLines
  /\ \E line \in ReportLines :
       /\ active_hosts' = SubnetStep(active_hosts, line)
       /\ repeated' = IF line.kind = "report" /\ SubnetParseIp(line) \in active_hosts
                        THEN repeated \cup { SubnetParseIp(line) }
                        ELSE repeated
  /\ f_idx' = f_idx + 1
  /\ UNCHANGED << schedVars, mainVars, guiVars, f_nmap, f_io, f_done, f_diag, f_probe, f_report, f_mode, f_pc, f_flag, f_cont, f_targets,
                  host_list, current_ip, active_ips, f_pending, f_calls,
                  f_ret >>

\* End of the output: list(active_hosts) goes to the scheduler, or -4 is
\* returned when no host was found.
SubnetFinish ==
  /\ f_mode = "subnet"
  /\ f_pc = "parse"
  /\ IF active_hosts = {}
       THEN /\ f_calls' = f_calls
            /\ FrontReturn(Returned(-4))
       ELSE \E result_list \in Enumerations(active_hosts) :
              /\ f_calls' = Append(f_calls, Call(result_list, f_cont, f_flag))
              /\ FrontReturn(Returned(0))
  /\ UNCHANGED << schedVars, mainVars, guiVars, f_nmap, f_io, f_done, f_diag, f_probe, f_report, f_mode, f_flag, f_cont, f_targets, host_list,
                  f_idx, active_hosts, current_ip, active_ips, f_pending,
                  repeated >>

\* Mutant of ValidatedSubnets: the first line that is not valid ends the
\* reading of the file.
ValidatedSubnetsAbort(entries) ==
  LET bad == { k \in DOMAIN entries : ~validate_subnet(entries[k]).ok }
      stop == IF bad = {} THEN Len(entries) + 1
              ELSE CHOOSE k \in bad : \A b \in bad : k <= b
  IN [k \in 1..(stop - 1) |-> validate_subnet(entries[k]).obj]

\* --------------------------------------------------------- list of subnets
\* The network objects of the lines that pass validate_subnet
\* (`validate_subnet(ind) or validate_ip(ind)`: a network is truthy, and a
\* ValueError of validate_subnet skips the line).
ValidatedSubnets(entries) ==
  LET valid == SelectSeq(entries, LAMBDA t : validate_subnet(t).ok) IN
    [k \in DOMAIN valid |-> validate_subnet(valid[k]).obj]

\* What opening the list file for writing and writing it can raise.
WriteErrors == {"PermissionError", "OSError"}

\* The lines written back to the list file: str() of each network.
WrittenBack(nets) == [k \in DOMAIN nets |-> NetworkStr(nets[k])]

\* What the list file holds after a failed rewrite: open(file_path, "w")
\* was refused and the file is as it was, or the file was truncated and some
\* of the lines were written.
AfterFailedWrite(old, new) ==
  {old} \cup { SubSeq(new, 1, n) : n \in 0..(Len(new) - 1) }

\* Mutant of SnlLoad: the list file is read and never rewritten.
SnlLoadNoWriteBack ==
  /\ f_mode = "subnet_list"
  /\ f_pc = "start"
  /\ \/ \E e \in FileErrors :
          /\ FrontReturn(Returned(FirstHandler(BatchHandlers, e, 1)))
          /\ f_io' = "read_failed"
          /\ UNCHANGED << host_list, f_targets, f_diag >>
     \/ \E nets \in Dedup(ValidatedSubnets(f_targets)) :
          /\ host_list' = nets
          /\ f_diag' = SelectSeq(f_targets, LAMBDA t : ~validate_subnet(t).ok)
          /\ f_io' = "written"
          /\ f_pc' = "probe"
          /\ UNCHANGED << f_ret, f_targets >>
  /\ UNCHANGED << schedVars, mainVars, guiVars, f_nmap, f_done, f_probe, f_report, f_mode, f_flag, f_cont, f_idx, active_hosts,
                  current_ip, active_ips, f_pending, repeated, f_calls >>

\* scan_multiple_subnets_manager up to the probe: the file is read, its valid
\* lines are deduplicated and the file is rewritten with them.  An exception
\* raised while the file is read, or while it is rewritten, ends the manager
\* in one of its except clauses.
SnlLoad ==
  /\ f_mode = "subnet_list"
  /\ f_pc = "start"
  /\ \/ \E e \in FileErrors :
          /\ FrontReturn(Returned(FirstHandler(BatchHandlers, e, 1)))
          /\ f_io' = "read_failed"
          /\ UNCHANGED << host_list, f_targets, f_diag >>
     \/ \E nets \in Dedup(ValidatedSubnets(f_targets)) :
          /\ host_list' = nets
          /\ f_diag' = SelectSeq(f_targets, LAMBDA t : ~validate_subnet(t).ok)
          /\ \/ /\ f_targets' = WrittenBack(nets)
                /\ f_io' = "written"
                /\ f_pc' = "probe"
                /\ UNCHANGED f_ret
             \/ \E e \in WriteErrors :
                  /\ f_targets' \in AfterFailedWrite(f_targets, WrittenBack(nets))
                  /\ f_io' = "write_failed"
                  /\ FrontReturn(Returned(FirstHandler(BatchHandlers, e, 1)))
  /\ UNCHANGED << schedVars, mainVars, guiVars, f_nmap, f_done, f_probe, f_report, f_mode, f_flag, f_cont, f_idx, active_hosts,
                  current_ip, active_ips, f_pending, repeated, f_calls >>

\* Mutant of SnlProbe: what nmap wrote to its standard error is printed and
\* the output is parsed all the same.
SnlProbeStderrPrinted ==
  /\ f_mode = "subnet_list"
  /\ f_pc = "probe"
  /\ \/ \E e \in ProbeErrors :
          /\ FrontReturn(Returned(FirstHandler(BatchHandlers, e, 1)))
          /\ f_probe' = e
     \/ /\ f_pc' = "parse"
        /\ f_probe' = "stderr"
        /\ UNCHANGED f_ret
     \/ /\ f_pc' = "parse"
        /\ f_probe' = "ok"
        /\ UNCHANGED f_ret
  /\ f_nmap' = f_targets
  /\ UNCHANGED << schedVars, mainVars, guiVars, f_io, f_done, f_diag, f_report, f_mode, f_flag, f_cont, f_targets, host_list,
                  f_idx, active_hosts, current_ip, active_ips, f_pending,
                  repeated, f_calls >>

\* nmap -sn -iL file: an exception or a non-empty stderr ends the manager.
SnlProbe ==
  /\ f_mode = "subnet_list"
  /\ f_pc = "probe"
  /\ \/ \E e \in ProbeErrors :
          /\ FrontReturn(Returned(FirstHandler(BatchHandlers, e, 1)))
          /\ f_probe' = e
     \/ /\ FrontReturn(Returned(-3))
        /\ f_probe' = "stderr"
     \/ /\ f_pc' = "parse"
        /\ f_probe' = "ok"
        /\ UNCHANGED f_ret
  /\ f_nmap' = f_targets
  /\ UNCHANGED << schedVars, mainVars, guiVars, f_io, f_done, f_diag, f_report, f_mode, f_flag, f_cont, f_targets, host_list,
                  f_idx, active_hosts, current_ip, active_ips, f_pending,
                  repeated, f_calls >>

\* Mutant of BatchStep: an announced address is added at once, as the subnet
\* parser does, without waiting for its confirmation.
BatchStepNoConfirmation(st, line) ==
  IF line.kind = "report"
    THEN [active_hosts |-> st.active_hosts \cup { BatchParseIp(line) },
          current_ip |-> BatchParseIp(line)]
    ELSE st

\* The body of the loop over output.splitlines() of
\* scan_multiple_subnets_manager on the parser state st = (active_hosts,
\* current_ip): the state after `line`.
BatchStep(st, line) ==
  IF line.kind = "report"
    THEN [active_hosts |-> st.active_hosts, current_ip |-> BatchParseIp(line)]
  ELSE IF line.kind = "up" /\ st.current_ip # NoIp
    THEN [active_hosts |-> st.active_hosts \cup { st.current_ip }, current_ip |-> NoIp]
  ELSE st

\* One round of the loop over output.splitlines(): an announcement sets
\* current_ip, a confirmation adds it to active_hosts and resets it.
SnlParseLine ==
  /\ f_mode = "subnet_list"
  /\ f_pc = "parse"
  /\ f_idx < MaxLines
  /\ \E line \in ReportLines :
       LET st == BatchStep([active_hosts |-> active_hosts, current_ip |-> current_ip], line)
       IN /\ active_hosts' = st.active_hosts
          /\ current_ip' = st.current_ip
          /\ repeated' = IF line.kind = "up" /\ current_ip # NoIp /\ current_ip \in active_hosts
                           THEN repeated \cup { current_ip }
                           ELSE repeated
  /\ f_idx' = f_idx + 1
  /\ UNCHANGED << schedVars, mainVars, guiVars, f_nmap, f_io, f_done, f_diag, f_probe, f_report, f_mode, f_pc, f_flag, f_cont, f_targets,
                  host_list, active_ips, f_pending, f_calls, f_ret >>

\* End of the output: list(active_hosts) goes to the scheduler when it is not
\* empty; 0 is returned either way.
SnlFinish ==
  /\ f_mode = "subnet_list"
  /\ f_pc = "parse"
  /\ IF active_hosts = {}
       THEN f_calls' = f_calls
       ELSE \E hosts \in Enumerations(active_hosts) :
              f_calls' = Append(f_calls, Call(hosts, f_cont, f_flag))
  /\ FrontReturn(Returned(0))
  /\ UNCHANGED << schedVars, mainVars, guiVars, f_nmap, f_io, f_done, f_diag, f_probe, f_report, f_mode, f_flag, f_cont, f_targets, host_list,
                  f_idx, active_hosts, current_ip, active_ips, f_pending,
                  repeated >>

FrontNext ==
  \/ scan_single_ip
  \/ IpListLoad
  \/ \E i \in f_pending : IpListProbeDone(i)
  \/ IpListFinish
  \/ SubnetProbe
  \/ SubnetParseLine
  \/ SubnetFinish
  \/ SnlLoad
  \/ SnlProbe
  \/ SnlParseLine
  \/ SnlFinish

\* ------------------------------------------- the scheduler, any order of hosts
\* The lists of distinct hosts in every order: list(set(...)) may hand the
\* hosts to start_docker_containers in any order.
HostOrders == UNION { Enumerations(S) : S \in (SUBSET Hosts) \ {{}} }

OrderInit ==
  /\ \E hosts \in HostOrders, limit \in 1..MaxLimit, fs \in BOOLEAN :
       SchedState(hosts, limit, fs, "submit")
  /\ FrontIdle
  /\ GuiOff

OrderSpec == OrderInit /\ [][Next]_vars

FrontSpec == FrontInit /\ [][FrontNext]_vars

\* ================================================ the parsers on a given report
\* "[10.0.0.h]", an address written as a bracketed literal.
Bracketed(h) == << "[", ToString(h), "]" >>

\* What can follow "Nmap scan report for" in a report handed to a parser:
\* what nmap prints, and a name followed by a bracketed literal.
AnnouncementTails ==
  ReportTails \cup { << DnsName, Bracketed(h) >> : h \in Hosts }

\* The lines of a report handed to a parser.
GivenLines ==
  [kind : {"report"}, tail : AnnouncementTails]
    \cup [kind : {"up", "other"}, tail : {<< >>}]

Reports == UNION { [1..n -> GivenLines] : n \in 0..MaxLines }

Line(k) == [kind |-> k, tail |-> << >>]

\* What `nmap -sn <address>` prints for the IPv4 address of host h: the host
\* announced (with or without its name, the confirmation line present or
\* not) and counted in the summary "Nmap done: 1 IP address (1 host up) ..."
\* (done_up), or no host announced and the summary "... (0 hosts up) ..."
\* (done_down).
SingleReports(h) ==
  UNION { { << [kind |-> "report", tail |-> t], Line("done_up") >>,
            << [kind |-> "report", tail |-> t], Line("up"), Line("done_up") >>,
            << [kind |-> "report", tail |-> t], Line("up"), Line("other"),
               Line("done_up") >> }
          : t \in { << Addr(h) >>, << DnsName, Parenthesised(h) >> } }
    \cup { << Line("done_down") >>, << Line("other"), Line("done_down") >> }

\* "Nmap done: 1 IP address (1 host up)" in output_ping
SummaryUp(lines) == \E k \in DOMAIN lines : lines[k].kind = "done_up"

\* ================================================================ main
\* ------------------------------------------------------------- file names
\* A path is the list of its components from the root.  The file system of
\* the run: base/input_files/ holds the regular file "list", the directory
\* "sub" with the regular file "inner", and "link", a symbolic link to the
\* regular file base/secret outside input_files.
InputDir == << "base", "input_files" >>

Directories == { << >>, << "base" >>, InputDir, InputDir \o << "sub" >> }

RegularFiles ==
  { InputDir \o << "list" >>, InputDir \o << "sub", "inner" >>, << "base", "secret" >> }

SymLinks == [ x \in { InputDir \o << "link" >> } |-> << "base", "secret" >> ]

Missing == << "?" >>

\* The file names a run can be given, relative to input_files.
FileNames ==
  UNION { [1..n -> {"..", "list", "sub", "inner", "link", "secret", "none"}]
          : n \in 0..MaxParts }

RECURSIVE normpath(_, _)
\* os.path.normpath: ".." removes the component before it (nothing at the
\* root); the file system is not consulted.
normpath(done, rest) ==
  IF rest = << >> THEN done
  ELSE IF Head(rest) = ".."
    THEN normpath(IF done = << >> THEN done ELSE SubSeq(done, 1, Len(done) - 1), Tail(rest))
    ELSE normpath(Append(done, Head(rest)), Tail(rest))

\* os.path.abspath of an absolute path.
abspath(path) == normpath(<< >>, path)

RECURSIVE Lookup(_, _)
\* What the operating system reaches walking `rest` from the directory `at`:
\* ".." is the parent directory, a symbolic link is followed, and a
\* component that does not exist or does not stand in a directory gives
\* Missing.
Lookup(at, rest) ==
  IF rest = << >> THEN at
  ELSE IF at \notin Directories THEN Missing
  ELSE LET next == IF Head(rest) = ".."
                     THEN IF at = << >> THEN at ELSE SubSeq(at, 1, Len(at) - 1)
                     ELSE Append(at, Head(rest))
           node == IF next \in DOMAIN SymLinks THEN SymLinks[next] ELSE next
       IN IF node \in Directories \cup RegularFiles
            THEN Lookup(node, Tail(rest))
            ELSE Missing

\* os.path.exists(path) and os.path.isfile(path)
isfile(path) == Lookup(<< >>, path) \in RegularFiles

\* os.path.commonpath([a, b]): the longest common prefix of components.
commonpath(a, b) ==
  LET agree == { n \in 0..Len(a) : n <= Len(b) /\ SubSeq(a, 1, n) = SubSeq(b, 1, n) }
  IN SubSeq(a, 1, CHOOSE n \in agree : \A m \in agree : m <= n)

\* Mutant of check_path_validity: the path is compared as given, without
\* abspath.
check_path_validity_as_given(file_path) ==
  IF commonpath(InputDir, file_path) = InputDir THEN isfile(file_path) ELSE FALSE

\* check_path_validity(file_path, base_dir)
check_path_validity(file_path) ==
  IF commonpath(InputDir, abspath(file_path)) = InputDir
    THEN isfile(file_path)
    ELSE FALSE

\* ------------------------------------------------------------ the run
\* The front ends: the menu of orchestrator.py started without arguments,
\* its command line, and the forms of the GUI, which start the command line.
Fronts == {"menu", "cli", "gui"}

ModesOf(front) ==
  IF front = "menu"
    THEN {"single_ip", "ip_list_manual", "ip_list_file", "subnet", "subnet_list"}
    ELSE {"single_ip_arg", "subnet", "subnet_list"}

\* -c/--containers is not given.
NoLimit == << "absent" >>

\* default=3 of -c/--containers.
DefaultContainers == 3

\* Entries of a target list in a run of main.
MaxMainEntries == 1

\* What main can be given as its target: any text for a single address or
\* subnet, lists as the managers read them.
MainTargets(mode) ==
  CASE mode \in {"single_ip", "single_ip_arg"} -> { << t >> : t \in IpTexts \cup {BadText} }
    [] mode = "subnet" -> { << t >> : t \in SubnetTexts \cup {BadText} }
    [] OTHER -> { l \in TargetsOf(mode) : Len(l) <= MaxMainEntries }

\* The status of log_parser.process_all_json_in_directory for a failure.
LogParserError == -1

MainInit ==
  /\ SchedState(<< >>, 1, FALSE, "idle")
  /\ m_front \in Fronts
  /\ f_mode \in ModesOf(m_front)
  /\ m_pc = IF m_front = "gui" THEN "form" ELSE "clear"
  /\ f_pc = "wait"
  /\ f_flag \in CASE m_front = "menu" -> {FALSE}
                  [] m_front = "gui" -> {TRUE}
                  [] OTHER -> BOOLEAN
  /\ f_cont = DefaultContainers
  /\ f_targets \in MainTargets(f_mode)
  /\ m_limit \in IF m_front # "menu" /\ f_mode \in {"subnet", "subnet_list"}
                   THEN LimitTexts \cup (IF m_front = "cli" THEN {NoLimit} ELSE {})
                   ELSE {NoLimit}
  /\ m_file \in IF f_mode = "subnet_list" THEN FileNames ELSE {<< >>}
  /\ m_kept = FALSE
  /\ m_rejected = FALSE
  /\ m_jobs = "none"
  /\ m_logs = "unread"
  /\ m_status = NoRet
  /\ host_list = << >>
  /\ f_idx = 0
  /\ active_hosts = {}
  /\ current_ip = NoIp
  /\ active_ips = << >>
  /\ f_pending = {}
  /\ repeated = {}
  /\ f_report = << >>
  /\ f_calls = << >>
  /\ f_ret = NoRet
  /\ f_probe = "none"
  /\ f_diag = << >>
  /\ f_nmap = << >>
  /\ f_io = "none"
  /\ f_done = << >>
  /\ m_clear = "none"
  /\ GuiOff

\* What no action of main changes.
managerVars ==
  << host_list, f_idx, active_hosts, current_ip, active_ips, f_pending,
     repeated, f_report, f_calls, f_ret, f_probe, f_diag, f_nmap, f_io,
     f_done >>

\* The target passes the validation main (or the form) applies to it.
TargetValid ==
  CASE f_mode \in {"single_ip", "single_ip_arg"} -> validate_ip(f_targets[1]).ok
    [] f_mode = "subnet" -> validate_subnet(f_targets[1]).ok
    [] f_mode = "subnet_list" -> check_path_validity(InputDir \o m_file)
    [] OTHER -> TRUE

\* A form of the GUI (start_single_ip_scan, start_single_subnet_scan,
\* start_multiple_subnets_scan and the functions of GUI_library they call):
\* the limit must be a digit string other than "" and "0" and int() must
\* take it, the target must be valid; then the command line is started with
\* the address, network or file name and `-c int(cont) -s`.
GuiForm ==
  /\ m_pc = "form"
  /\ LET needs_limit == f_mode \in {"subnet", "subnet_list"}
         cont_ok == needs_limit =>
                      /\ isdigit(m_limit)
                      /\ m_limit # << "0" >>
                      /\ int(m_limit).ok
     IN IF cont_ok /\ TargetValid
          THEN /\ m_pc' = "clear"
               /\ m_limit' = IF needs_limit THEN << ToString(int(m_limit).val) >> ELSE m_limit
               /\ f_targets' =
                    CASE f_mode = "single_ip_arg" ->
                           << AddressStr(validate_ip(f_targets[1]).obj) >>
                      [] f_mode = "subnet" ->
                           << NetworkStr(validate_subnet(f_targets[1]).obj) >>
                      [] OTHER -> f_targets
               /\ UNCHANGED m_status
          ELSE /\ m_pc' = "exit"
               /\ m_status' = [kind |-> "refused", val |-> 0]
               /\ UNCHANGED << m_limit, f_targets >>
  /\ UNCHANGED << schedVars, managerVars, guiVars, m_clear, f_mode, f_pc, f_flag, f_cont,
                  m_front, m_file, m_kept, m_rejected, m_jobs, m_logs >>

\* ------------------------------------------------- preparing the directories
\* Entries of the logs directory a run may find: a result file of an earlier
\* run, README.md, a subdirectory.
DirEntryKinds == {"file", "README.md", "dir"}

\* How os.remove on an entry can end.
RemoveOutcomes ==
  {"ok", "FileNotFoundError", "PermissionError", "IsADirectoryError", "OSError"}

\* How os.makedirs can end.
MakedirsOutcomes == {"ok", "PermissionError", "NotADirectoryError", "OSError"}

MaxDirEntries == 2

\* The logs directory as clear_directories finds it: whether it exists, how
\* listing it ends, its entries with the way their removal would end, and
\* how creating it would end.
LogsDirs ==
  [exists  : BOOLEAN,
   listdir : {"ok", "PermissionError"},
   entries : UNION { [1..n -> [kind : DirEntryKinds, rm : RemoveOutcomes]]
                     : n \in 0..MaxDirEntries },
   mk      : MakedirsOutcomes]

\* Mutant of RemoveHandlers: the clause of OSError stands first, so it also
\* takes a file that has vanished and an entry that is a directory.
RemoveHandlersOSErrorFirst ==
  << [cls |-> "OSError",           code |-> -1],
     [cls |-> "FileNotFoundError", code |-> 0],
     [cls |-> "PermissionError",   code |-> -1],
     [cls |-> "IsADirectoryError", code |-> 0] >>

\* except clauses around os.remove: 0 stands for a message after which the
\* loop goes on, -1 is returned.
RemoveHandlers ==
  << [cls |-> "FileNotFoundError", code |-> 0],
     [cls |-> "PermissionError",   code |-> -1],
     [cls |-> "IsADirectoryError", code |-> 0],
     [cls |-> "OSError",           code |-> -1] >>

\* except clauses around os.makedirs in clear_directories.
MakedirsHandlers ==
  << [cls |-> "PermissionError",    code |-> -1],
     [cls |-> "NotADirectoryError", code |-> -1],
     [cls |-> "OSError",            code |-> -1] >>

\* os.path.isfile(file_path) and file_name != "README.md"
IsRemovable(entry) == entry.kind = "file"

RECURSIVE ClearLoop(_, _, _)
\* The loop over os.listdir(directory_path) from entry k on, `left` being
\* the entries that stayed so far: the value returned and what is left.
ClearLoop(entries, k, left) ==
  IF k > Len(entries) THEN [ret |-> 0, left |-> left]
  ELSE LET e == entries[k] IN
    IF ~IsRemovable(e) THEN ClearLoop(entries, k + 1, left \cup {k})
    ELSE IF e.rm = "ok" THEN ClearLoop(entries, k + 1, left)
    ELSE IF FirstHandler(RemoveHandlers, e.rm, 1) = -1
      THEN [ret |-> -1, left |-> left \cup (k..Len(entries))]
    ELSE ClearLoop(entries, k + 1,
                   IF e.rm = "FileNotFoundError" THEN left ELSE left \cup {k})

\* One turn of the loop over the directories, on the directory d: the value
\* returned (0: the loop goes on), the entries left and whether d exists
\* afterwards.
ClearDirectory(d) ==
  IF d.exists
    THEN IF d.listdir # "ok"
           THEN [ret |-> -1, left |-> DOMAIN d.entries, exists |-> TRUE]
           ELSE [ret    |-> ClearLoop(d.entries, 1, {}).ret,
                 left   |-> ClearLoop(d.entries, 1, {}).left,
                 exists |-> TRUE]
    ELSE IF d.mk = "ok"
           THEN [ret |-> 0, left |-> {}, exists |-> TRUE]
           ELSE [ret    |-> FirstHandler(MakedirsHandlers, d.mk, 1),
                 left   |-> {},
                 exists |-> FALSE]

\* A directory the loop did not come to.
Untouched(d) == [ret |-> 0, left |-> DOMAIN d.entries, exists |-> d.exists]

RECURSIVE ClearFrom(_, _)
\* for directory_path in directories, from the k-th on: the value returned
\* and what every directory is like afterwards.
ClearFrom(directories, k) ==
  IF k > Len(directories) THEN [ret |-> 0, after |-> << >>]
  ELSE LET r == ClearDirectory(directories[k]) IN
    IF r.ret = -1
      THEN [ret   |-> -1,
            after |-> << r >> \o
                      [i \in 1..(Len(directories) - k)
                         |-> Untouched(directories[k + i])]]
      ELSE [ret   |-> ClearFrom(directories, k + 1).ret,
            after |-> << r >> \o ClearFrom(directories, k + 1).after]

\* clear_directories(directories)
clear_directories(directories) == ClearFrom(directories, 1)

\* What clear_directories can return on the logs directory, and whether it
\* has left an entry in it.
ClearOutcomes ==
  { [ret  |-> clear_directories(<< d >>).ret,
     kept |-> clear_directories(<< d >>).after[1].left # {}]
    : d \in LogsDirs }

\* Mutant of MainPrepare: the value of clear_directories is printed and main
\* goes on to parse_arguments.
MainPrepareGoesOn ==
  /\ m_pc = "clear"
  /\ \/ /\ m_pc' = "exit"
        /\ m_status' = Raised
        /\ m_clear' = "raised"
        /\ UNCHANGED m_kept
     \/ \E r \in ClearOutcomes :
          /\ m_pc' = "args"
          /\ m_clear' = IF r.ret = -1 THEN "failed" ELSE "ok"
          /\ m_kept' = r.kept
          /\ UNCHANGED m_status
  /\ UNCHANGED << schedVars, managerVars, guiVars, f_mode, f_pc, f_flag, f_cont,
                  f_targets, m_front, m_limit, m_file, m_rejected, m_jobs,
                  m_logs >>

\* The first step of main: os.makedirs on the input directory, which raises
\* to the caller of main when it fails, and clear_directories on the logs
\* directory, whose -1 makes main return -1 before parse_arguments.
MainPrepare ==
  /\ m_pc = "clear"
  /\ \/ /\ m_pc' = "exit"
        /\ m_status' = Raised
        /\ m_clear' = "raised"
        /\ UNCHANGED m_kept
     \/ \E r \in ClearOutcomes :
          IF r.ret = -1
            THEN /\ m_pc' = "exit"
                 /\ m_status' = Returned(-1)
                 /\ m_clear' = "failed"
                 /\ UNCHANGED m_kept
            ELSE /\ m_pc' = "args"
                 /\ m_clear' = "ok"
                 /\ m_kept' = r.kept
                 /\ UNCHANGED m_status
  /\ UNCHANGED << schedVars, managerVars, guiVars, f_mode, f_pc, f_flag, f_cont,
                  f_targets, m_front, m_limit, m_file, m_rejected, m_jobs,
                  m_logs >>

\* Mutant of parse_arguments: the test of args.containers <= 0 is missing.
parse_arguments_any_int ==
  /\ m_pc = "args"
  /\ IF m_limit = NoLimit
       THEN /\ f_cont' = DefaultContainers
            /\ m_pc' = "validate"
            /\ UNCHANGED m_status
       ELSE IF int(m_limit).ok
         THEN /\ f_cont' = int(m_limit).val
              /\ m_pc' = "validate"
              /\ UNCHANGED m_status
         ELSE /\ m_pc' = "exit"
              /\ m_status' = [kind |-> "usage", val |-> 2]
              /\ UNCHANGED f_cont
  /\ UNCHANGED << schedVars, managerVars, guiVars, m_clear, f_mode, f_pc, f_flag, f_targets,
                  m_front, m_limit, m_file, m_kept, m_rejected, m_jobs, m_logs >>

\* parse_arguments: -c/--containers has type=int and default 3, and a value
\* <= 0 is a usage error (parser.error exits with status 2).
parse_arguments ==
  /\ m_pc = "args"
  /\ IF m_limit = NoLimit
       THEN /\ f_cont' = DefaultContainers
            /\ m_pc' = "validate"
            /\ UNCHANGED m_status
       ELSE IF int(m_limit).ok /\ int(m_limit).val > 0
         THEN /\ f_cont' = int(m_limit).val
              /\ m_pc' = "validate"
              /\ UNCHANGED m_status
         ELSE /\ m_pc' = "exit"
              /\ m_status' = [kind |-> "usage", val |-> 2]
              /\ UNCHANGED f_cont
  /\ UNCHANGED << schedVars, managerVars, guiVars, m_clear, f_mode, f_pc, f_flag, f_targets,
                  m_front, m_limit, m_file, m_kept, m_rejected, m_jobs, m_logs >>

\* main enters the manager of the mode.
EnterManager ==
  /\ m_pc' = "call"
  /\ f_pc' = "start"
  /\ UNCHANGED << f_targets, m_file, m_rejected, m_status >>

\* The menu asks again for what it has refused.
AskAgain ==
  /\ f_targets' \in MainTargets(f_mode)
  /\ m_file' \in IF f_mode = "subnet_list" THEN FileNames ELSE {<< >>}
  /\ m_rejected' = TRUE
  /\ UNCHANGED << m_pc, f_pc, m_status >>

\* Mutant of MainValidate: a target that is refused always ends main with
\* status -1.
MainValidateFatal ==
  /\ m_pc = "validate"
  /\ IF TargetValid
       THEN EnterManager
       ELSE /\ m_pc' = "exit"
            /\ m_status' = [kind |-> "ret", val |-> -1]
            /\ m_rejected' = TRUE
            /\ UNCHANGED << f_pc, f_targets, m_file >>
  /\ UNCHANGED << schedVars, managerVars, guiVars, m_clear, f_mode, f_flag, f_cont, m_front,
                  m_limit, m_kept, m_jobs, m_logs >>

\* main between parse_arguments and the call of the library: the address,
\* the subnet or the path of the list file is validated.  The menu asks
\* again; the command line returns -1 for an address or a path that is
\* refused, and for a subnet that is refused prints the error and goes on
\* to the log parser.
MainValidate ==
  /\ m_pc = "validate"
  /\ IF TargetValid
       THEN EnterManager
       ELSE IF m_front = "menu"
         THEN AskAgain
         ELSE IF f_mode = "subnet"
           THEN /\ m_pc' = "logs"
                /\ m_rejected' = TRUE
                /\ UNCHANGED << f_pc, f_targets, m_file, m_status >>
           ELSE /\ m_pc' = "exit"
                /\ m_status' = [kind |-> "ret", val |-> -1]
                /\ m_rejected' = TRUE
                /\ UNCHANGED << f_pc, f_targets, m_file >>
  /\ UNCHANGED << schedVars, managerVars, guiVars, m_clear, f_mode, f_flag, f_cont, m_front,
                  m_limit, m_kept, m_jobs, m_logs >>

\* The branches the drain loop of start_docker_containers can take for a job.
JobBranches(fs) == { DrainBranch(run_container(pr, fs)) : pr \in ProcResults }

\* start_docker_containers as main sees it: every job ends on some branch of
\* the drain loop and the function returns None.
MainJobs ==
  /\ m_pc = "call"
  /\ f_pc = "done"
  /\ f_calls # << >>
  /\ m_jobs = "none"
  /\ \E branches \in [DOMAIN f_calls[1].ip_list -> JobBranches(f_calls[1].flag_sim)] :
       m_jobs' = IF \A j \in DOMAIN branches : branches[j] = "ok"
                   THEN "all_ok"
                   ELSE "some_failed"
  /\ UNCHANGED << schedVars, managerVars, guiVars, m_clear, f_mode, f_pc, f_flag, f_cont,
                  f_targets, m_pc, m_front, m_limit, m_file, m_kept,
                  m_rejected, m_logs, m_status >>

\* Mutant of AfterManager: the value of subnet_scan_manager is looked at as
\* the value of scan_multiple_subnets_manager is.
AfterManagerSubnetChecked ==
  IF f_mode = "subnet"
    THEN IF f_ret.val < 0 THEN [kind |-> "ret", val |-> -4]
         ELSE [kind |-> "go_on", val |-> 0]
  ELSE IF f_mode = "subnet_list"
    THEN IF f_ret.val < 0 THEN [kind |-> "ret", val |-> -5]
         ELSE [kind |-> "go_on", val |-> 0]
  ELSE IF f_ret.kind = "exc" THEN [kind |-> "exc", val |-> 0]
  ELSE IF f_mode \in {"single_ip", "single_ip_arg"}
    THEN IF ~f_ret.val THEN [kind |-> "ret", val |-> -2]
         ELSE [kind |-> "go_on", val |-> 0]
  ELSE IF f_ret.val < 0 THEN [kind |-> "ret", val |-> -3]
  ELSE [kind |-> "go_on", val |-> 0]

\* What main does with the value the library call ended with: the status it
\* returns, "exc" for an exception nothing catches, "go_on" for the log
\* parser.
AfterManager ==
  CASE f_mode = "single_ip" ->
         IF f_ret.kind = "exc" THEN [kind |-> "exc", val |-> 0]
         ELSE IF ~f_ret.val THEN [kind |-> "ret", val |-> -2]
         ELSE [kind |-> "go_on", val |-> 0]
    [] f_mode = "single_ip_arg" ->
         IF f_ret.kind = "exc"
           THEN IF IsInstance(f_probe, "ValueError")
                  THEN [kind |-> "ret", val |-> -1]
                  ELSE [kind |-> "exc", val |-> 0]
         ELSE IF ~f_ret.val THEN [kind |-> "ret", val |-> -2]
         ELSE [kind |-> "go_on", val |-> 0]
    [] f_mode \in {"ip_list_manual", "ip_list_file"} ->
         IF f_ret.kind = "exc" THEN [kind |-> "exc", val |-> 0]
         ELSE IF f_ret.val < 0 THEN [kind |-> "ret", val |-> -3]
         ELSE [kind |-> "go_on", val |-> 0]
    [] f_mode = "subnet" -> [kind |-> "go_on", val |-> 0]
    [] OTHER ->
         IF f_ret.val < 0 THEN [kind |-> "ret", val |-> -5]
         ELSE [kind |-> "go_on", val |-> 0]

\* Mutant of MainReturn: a job that did not end well makes main return -6
\* without running the log parser.
MainReturnJobsChecked ==
  /\ m_pc = "call"
  /\ f_pc = "done"
  /\ f_calls = << >> \/ m_jobs # "none"
  /\ IF m_jobs = "some_failed"
       THEN /\ m_pc' = "exit"
            /\ m_status' = [kind |-> "ret", val |-> -6]
       ELSE IF AfterManager.kind = "go_on"
         THEN /\ m_pc' = "logs"
              /\ UNCHANGED m_status
         ELSE /\ m_pc' = "exit"
              /\ m_status' = AfterManager
  /\ UNCHANGED << schedVars, managerVars, guiVars, m_clear, f_mode, f_pc, f_flag, f_cont,
                  f_targets, m_front, m_limit, m_file, m_kept, m_rejected,
                  m_jobs, m_logs >>

\* The library call has ended: main returns or goes on to the log parser.
MainReturn ==
  /\ m_pc = "call"
  /\ f_pc = "done"
  /\ f_calls = << >> \/ m_jobs # "none"
  /\ IF AfterManager.kind = "go_on"
       THEN /\ m_pc' = "logs"
            /\ UNCHANGED m_status
       ELSE /\ m_pc' = "exit"
            /\ m_status' = AfterManager
  /\ UNCHANGED << schedVars, managerVars, guiVars, m_clear, f_mode, f_pc, f_flag, f_cont,
                  f_targets, m_front, m_limit, m_file, m_kept, m_rejected,
                  m_jobs, m_logs >>

\* What os.listdir(logs) and the log parser can find: without a job and
\* without an entry clear_directories has left the directory is empty; an
\* entry that was left makes it non-empty; jobs may or may not have written
\* result files.
LogsFound ==
  IF m_kept THEN {"parsed", "failed"}
  ELSE IF f_calls = << >> THEN {"empty"}
  ELSE {"empty", "parsed", "failed"}

\* The end of main: -6 for an empty logs directory, else the status of the
\* log parser when it is negative, else 0.
MainLogs ==
  /\ m_pc = "logs"
  /\ \E found \in LogsFound :
       /\ m_logs' = found
       /\ m_status' = [kind |-> "ret",
                       val |-> CASE found = "empty" -> -6
                                 [] found = "failed" -> LogParserError
                                 [] OTHER -> 0]
  /\ m_pc' = "exit"
  /\ UNCHANGED << schedVars, managerVars, guiVars, m_clear, f_mode, f_pc, f_flag, f_cont,
                  f_targets, m_front, m_limit, m_file, m_kept, m_rejected,
                  m_jobs >>

MainNext ==
  \/ GuiForm
  \/ MainPrepare
  \/ parse_arguments
  \/ MainValidate
  \/ FrontNext
  \/ MainJobs
  \/ MainReturn
  \/ MainLogs

MainSpec == MainInit /\ [][MainNext]_vars

\* ======================================================= the GUI around a run
\* A run started from the GUI: the start handler enables the Stop button and
\* starts thread_function, which starts `docker run orch:latest ... -s` in a
\* process group of its own, stores the Popen object and waits for it; the
\* container runs main, so start_docker_containers with flag_sim = True, and
\* every tool it spawns lives in the container.
MaxStops == 2

StopInit ==
  /\ \E hosts \in HostLists, limit \in 1..MaxLimit :
       SchedState(hosts, limit, TRUE, "submit")
  /\ FrontIdle
  /\ GuiOff

\* Jobs whose scan process was spawned.
JobsStarted == { j \in Jobs : launches[j] > 0 }

\* Jobs in a terminal state.
JobsTerminal == { j \in Jobs : future[j] = "FINISHED" }

\* Jobs a progress update was emitted for.
JobsReported == { j \in Jobs : \E k \in DOMAIN updates : updates[k].ip = ip_list[j] }

\* start_single_ip_scan and its two siblings, in the main thread: the Stop
\* button is enabled and thread_function is started.
StartScan ==
  /\ g_thread = "off"
  /\ g_thread' = "spawn"
  /\ stop_btn' = "enabled"
  /\ UNCHANGED << schedVars, mainVars, managerVars, appVars, sideVars, f_mode, f_pc, f_flag, f_cont,
                  f_targets, current_process, g_container, g_stop, g_pc, g_signal >>

\* thread_function calls lib.scan_...: Popen starts the container and the
\* process object is returned, or the library catches an exception, reports
\* it and returns None.
GuiPopen ==
  /\ g_thread = "spawn"
  /\ \/ /\ g_container' = "running"
        /\ g_thread' = "assign"
     \/ /\ g_thread' = "finished"
        /\ UNCHANGED g_container
  /\ UNCHANGED << schedVars, mainVars, managerVars, appVars, sideVars, f_mode, f_pc, f_flag, f_cont,
                  f_targets, current_process, stop_btn, g_stop, g_pc, g_signal >>

\* self.current_process = <the process object>; then current_process.wait().
GuiAssign ==
  /\ g_thread = "assign"
  /\ current_process' = "Popen"
  /\ g_thread' = "wait"
  /\ UNCHANGED << schedVars, mainVars, managerVars, appVars, sideVars, f_mode, f_pc, f_flag, f_cont,
                  f_targets, stop_btn, g_container, g_stop, g_pc, g_signal >>

\* A step of the scheduler inside the running container.
ContainerStep ==
  /\ g_container = "running"
  /\ Next

\* start_docker_containers has returned and main ends: the container exits
\* (--rm removes it).
ContainerExit ==
  /\ g_container = "running"
  /\ pc = "done"
  /\ g_container' = "exited"
  /\ UNCHANGED << schedVars, mainVars, managerVars, appVars, sideVars, f_mode, f_pc, f_flag, f_cont,
                  f_targets, g_thread, current_process, stop_btn, g_stop, g_pc,
                  g_signal >>

\* current_process.wait() returns: the docker client has ended, with its
\* container or by the signal of stop_scan; the finally clause schedules
\* on_thread_complete.
ThreadWaitReturns ==
  /\ g_thread = "wait"
  /\ g_container # "running" \/ g_signal # << >>
  /\ g_thread' = "finished"
  /\ UNCHANGED << schedVars, mainVars, managerVars, appVars, sideVars, f_mode, f_pc, f_flag, f_cont,
                  f_targets, current_process, stop_btn, g_container, g_stop, g_pc,
                  g_signal >>

\* on_thread_complete, in the main thread (so not inside stop_scan).
OnThreadComplete ==
  /\ g_thread = "finished"
  /\ g_pc = "idle"
  /\ g_thread' = "done"
  /\ stop_btn' = "disabled"
  /\ current_process' = "None"
  /\ UNCHANGED << schedVars, mainVars, managerVars, appVars, sideVars, f_mode, f_pc, f_flag, f_cont,
                  f_targets, g_container, g_stop, g_pc, g_signal >>

\* The finally clause of stop_scan.
StopFinally ==
  /\ stop_btn' = "disabled"
  /\ current_process' = "None"
  /\ g_pc' = "idle"

\* Mutant of stop_scan_remove: only the process group is signalled, the
\* containers are not removed.
stop_scan_signal_only ==
  /\ g_pc = "signalled"
  /\ g_stop' = Append(g_stop, "stopped")
  /\ UNCHANGED g_container
  /\ StopFinally
  /\ UNCHANGED << schedVars, mainVars, managerVars, appVars, sideVars, f_mode, f_pc, f_flag, f_cont,
                  f_targets, g_thread, g_signal >>

\* stop_scan, up to os.killpg: without a stored process the request is only
\* logged; killpg sends SIGTERM to the process group of the docker client,
\* which may pass it on to the container, or raises, and then the except
\* and the finally clause end the handler.
stop_scan ==
  /\ stop_btn = "enabled"
  /\ g_pc = "idle"
  /\ Len(g_stop) < MaxStops
  /\ IF current_process = "None"
       THEN /\ g_stop' = Append(g_stop, "no_process")
            /\ UNCHANGED << stop_btn, current_process, g_pc, g_signal, g_container >>
       ELSE \/ /\ g_pc' = "signalled"
               /\ g_signal' = << [started |-> JobsStarted, terminal |-> JobsTerminal] >>
               /\ g_container' \in IF g_container = "running"
                                     THEN {"running", "exited"}
                                     ELSE {g_container}
               /\ UNCHANGED << stop_btn, current_process, g_stop >>
            \/ /\ g_stop' = Append(g_stop, "error")
               /\ StopFinally
               /\ UNCHANGED << g_signal, g_container >>
  /\ UNCHANGED << schedVars, mainVars, managerVars, appVars, sideVars, f_mode, f_pc, f_flag, f_cont,
                  f_targets, g_thread >>

\* stop_scan after os.killpg: `docker ps -q --filter name=orchestrator_ |
\* xargs -r docker rm -f` removes every orchestrator_ container, or fails
\* (check=True) and the except clause reports it; then the finally clause.
stop_scan_remove ==
  /\ g_pc = "signalled"
  /\ \/ /\ g_stop' = Append(g_stop, "stopped")
        /\ g_container' = IF g_container = "running" THEN "removed" ELSE g_container
     \/ /\ g_stop' = Append(g_stop, "error")
        /\ UNCHANGED g_container
  /\ StopFinally
  /\ UNCHANGED << schedVars, mainVars, managerVars, appVars, sideVars, f_mode, f_pc, f_flag, f_cont,
                  f_targets, g_thread, g_signal >>

StopNext ==
  \/ StartScan
  \/ GuiPopen
  \/ GuiAssign
  \/ ContainerStep
  \/ ContainerExit
  \/ ThreadWaitReturns
  \/ OnThreadComplete
  \/ stop_scan
  \/ stop_scan_remove

StopSpec == StopInit /\ [][StopNext]_vars

\* ================================================= the App over several scans
\* The main thread of the App handles one event at a time: a press of a
\* button or a callback scheduled with after(). A start handler calls
\* stop_btn.update() before it hides the form, and update() handles the
\* events that are pending then, so a handler can run inside a start
\* handler. The thread of a scan runs beside the main thread. Of the process
\* of a scan only whether it runs or has ended is looked at.
AppInit ==
  /\ SchedState(<< >>, 1, FALSE, "idle")
  /\ FrontIdle
  /\ GuiOff

\* What no step of the App changes.
outsideApp ==
  << schedVars, mainVars, managerVars, stopVars, sideVars, f_mode, f_pc, f_flag,
     f_cont, f_targets >>

\* Scans whose start handler has begun and whose completion callback has not
\* run.
InProgress ==
  { s \in Scans :
      a_thread[s] \in {"handler", "spawn", "assign", "check", "call", "wait", "finished"} }

\* Scans whose process is alive.
Alive == { s \in Scans : a_proc[s] = "running" }

\* App.get_dynamic_frame: "Start Orchestrator" is disabled, "How To" enabled
\* and the form shown.
get_dynamic_frame ==
  /\ a_window = "open"
  /\ a_dyn_btn = "enabled"
  /\ a_dyn_btn' = "disabled"
  /\ a_man_btn' = "enabled"
  /\ a_form' = "shown"
  /\ a_reentered' = (a_reentered \/ a_stack # << >>)
  /\ UNCHANGED << outsideApp, a_failed, a_waits, a_thread, a_proc, a_current, a_stop_btn, a_stack,
                  a_window, a_done, a_close, a_stopped >>

\* App.open_how_to: "How To" is disabled, "Start Orchestrator" enabled and
\* the form hidden.
open_how_to ==
  /\ a_window = "open"
  /\ a_man_btn = "enabled"
  /\ a_man_btn' = "disabled"
  /\ a_dyn_btn' = "enabled"
  /\ a_form' = "hidden"
  /\ a_reentered' = (a_reentered \/ a_stack # << >>)
  /\ UNCHANGED << outsideApp, a_failed, a_waits, a_thread, a_proc, a_current, a_stop_btn, a_stack,
                  a_window, a_done, a_close, a_stopped >>

\* A start handler up to stop_btn.update(): a Start button can be pressed
\* while the form is shown; the Stop button is enabled and update() entered.
StartPress(s) ==
  /\ a_window = "open"
  /\ a_form = "shown"
  /\ a_thread[s] = "none"
  /\ \A t \in Scans : t < s => a_thread[t] # "none"
  /\ a_stop_btn' = "enabled"
  /\ a_thread' = [a_thread EXCEPT ![s] = "handler"]
  /\ a_stack' = Append(a_stack, s)
  /\ a_reentered' = (a_reentered \/ a_stack # << >>)
  /\ UNCHANGED << outsideApp, a_failed, a_waits, a_proc, a_current, a_man_btn, a_dyn_btn, a_form,
                  a_window, a_done, a_close, a_stopped >>

\* Mutant of StartResume: the form stays shown while the scan runs.
StartResumeFormShown ==
  /\ a_window = "open"
  /\ a_stack # << >>
  /\ LET s == a_stack[Len(a_stack)] IN
       a_thread' = [a_thread EXCEPT ![s] = "spawn"]
  /\ a_stack' = SubSeq(a_stack, 1, Len(a_stack) - 1)
  /\ a_man_btn' = "disabled"
  /\ UNCHANGED << outsideApp, a_failed, a_waits, a_proc, a_current, a_stop_btn, a_dyn_btn, a_form,
                  a_window, a_done, a_close, a_stopped, a_reentered >>

\* The start handler after stop_btn.update() has returned: the form is
\* hidden, "How To" disabled and thread_function started.
StartResume ==
  /\ a_window = "open"
  /\ a_stack # << >>
  /\ LET s == a_stack[Len(a_stack)] IN
       a_thread' = [a_thread EXCEPT ![s] = "spawn"]
  /\ a_stack' = SubSeq(a_stack, 1, Len(a_stack) - 1)
  /\ a_form' = "hidden"
  /\ a_man_btn' = "disabled"
  /\ UNCHANGED << outsideApp, a_failed, a_waits, a_proc, a_current, a_stop_btn, a_dyn_btn,
                  a_window, a_done, a_close, a_stopped, a_reentered >>

\* The finally clause of thread_function: self.after(0, on_thread_complete),
\* which raises in the thread once the window is destroyed.
AfterFinally == IF a_window = "open" THEN "finished" ELSE "dead"

\* Mutant of ThreadPopen: when the process could not be started the thread
\* ends without scheduling on_thread_complete.
ThreadPopenNoCallback(s) ==
  /\ a_thread[s] = "spawn"
  /\ \/ /\ a_proc' = [a_proc EXCEPT ![s] = "running"]
        /\ a_thread' = [a_thread EXCEPT ![s] = "assign"]
        /\ UNCHANGED a_current
     \/ /\ a_current' = 0
        /\ a_thread' = [a_thread EXCEPT ![s] = "dead"]
        /\ UNCHANGED a_proc
  /\ UNCHANGED << outsideApp, a_failed, a_waits, a_stop_btn, a_man_btn, a_dyn_btn, a_form, a_stack,
                  a_window, a_done, a_close, a_stopped, a_reentered >>

\* thread_function calls lib.scan_...: the process is started, or the
\* library reports an exception and returns None, which thread_function
\* stores and reports before its finally clause.
ThreadPopen(s) ==
  /\ a_thread[s] = "spawn"
  /\ \/ /\ a_proc' = [a_proc EXCEPT ![s] = "running"]
        /\ a_thread' = [a_thread EXCEPT ![s] = "assign"]
        /\ UNCHANGED a_current
     \/ /\ a_current' = 0
        /\ a_thread' = [a_thread EXCEPT ![s] = AfterFinally]
        /\ UNCHANGED a_proc
  /\ UNCHANGED << outsideApp, a_failed, a_waits, a_stop_btn, a_man_btn, a_dyn_btn, a_form, a_stack,
                  a_window, a_done, a_close, a_stopped, a_reentered >>

\* self.current_process = <the process object>
ThreadAssign(s) ==
  /\ a_thread[s] = "assign"
  /\ a_current' = s
  /\ a_thread' = [a_thread EXCEPT ![s] = "check"]
  /\ UNCHANGED << outsideApp, a_failed, a_waits, a_proc, a_stop_btn, a_man_btn, a_dyn_btn, a_form,
                  a_stack, a_window, a_done, a_close, a_stopped, a_reentered >>

\* if self.current_process: the attribute is read again; when stop_scan has
\* reset it meanwhile the thread reports that the process could not be
\* started and comes to its finally clause.
ThreadCheck(s) ==
  /\ a_thread[s] = "check"
  /\ a_thread' = [a_thread EXCEPT ![s] = IF a_current # 0 THEN "call" ELSE AfterFinally]
  /\ UNCHANGED << outsideApp, a_failed, a_waits, a_proc, a_current, a_stop_btn, a_man_btn,
                  a_dyn_btn, a_form, a_stack, a_window, a_done, a_close,
                  a_stopped, a_reentered >>

\* self.current_process.wait(): the attribute is read once more; on None the
\* call raises AttributeError, which the except clause reports, and the
\* finally clause runs; else the thread waits for the process the attribute
\* holds.
ThreadCall(s) ==
  /\ a_thread[s] = "call"
  /\ IF a_current = 0
       THEN /\ a_thread' = [a_thread EXCEPT ![s] = AfterFinally]
            /\ UNCHANGED a_waits
       ELSE /\ a_thread' = [a_thread EXCEPT ![s] = "wait"]
            /\ a_waits' = [a_waits EXCEPT ![s] = a_current]
  /\ UNCHANGED << outsideApp, a_failed, a_proc, a_current, a_stop_btn, a_man_btn,
                  a_dyn_btn, a_form, a_stack, a_window, a_done, a_close,
                  a_stopped, a_reentered >>

\* The process of a scan ends by itself.
AppProcessExit(s) ==
  /\ a_proc[s] = "running"
  /\ a_proc' = [a_proc EXCEPT ![s] = "exited"]
  /\ UNCHANGED << outsideApp, a_failed, a_waits, a_thread, a_current, a_stop_btn, a_man_btn,
                  a_dyn_btn, a_form, a_stack, a_window, a_done, a_close,
                  a_stopped, a_reentered >>

\* current_process.wait() returns and the finally clause runs.
ThreadWait(s) ==
  /\ a_thread[s] = "wait"
  /\ a_proc[a_waits[s]] = "exited"
  /\ a_thread' = [a_thread EXCEPT ![s] = AfterFinally]
  /\ UNCHANGED << outsideApp, a_failed, a_waits, a_proc, a_current, a_stop_btn, a_man_btn, a_dyn_btn,
                  a_form, a_stack, a_window, a_done, a_close, a_stopped,
                  a_reentered >>

\* on_thread_complete of a scan, in the main thread.
on_thread_complete(s) ==
  /\ a_window = "open"
  /\ a_thread[s] = "finished"
  /\ a_thread' = [a_thread EXCEPT ![s] = "done"]
  /\ a_done' = [a_done EXCEPT ![s] = @ + 1]
  /\ a_man_btn' = "enabled"
  /\ a_form' = "shown"
  /\ a_stop_btn' = "disabled"
  /\ a_current' = 0
  /\ UNCHANGED << outsideApp, a_failed, a_waits, a_proc, a_dyn_btn, a_stack, a_window, a_close,
                  a_stopped, a_reentered >>

\* App.stop_scan as the App sees it: without a stored process a message; else
\* killpg and docker rm -f end every scan process, or one of them raises and
\* the processes run on; the finally clause disables Stop and forgets the
\* process.
AppStopScan ==
  /\ a_window = "open"
  /\ a_stop_btn = "enabled"
  /\ IF a_current = 0
       THEN /\ a_stopped' = "no_process"
            /\ UNCHANGED << a_proc, a_stop_btn, a_current, a_failed >>
       ELSE /\ \/ /\ a_proc' = [s \in Scans |->
                                  IF a_proc[s] = "running" THEN "exited" ELSE a_proc[s]]
                  /\ a_stopped' = "stopped"
                  /\ UNCHANGED a_failed
               \/ /\ a_stopped' = "error"
                  /\ a_failed' = TRUE
                  /\ UNCHANGED a_proc
            /\ a_stop_btn' = "disabled"
            /\ a_current' = 0
  /\ a_reentered' = (a_reentered \/ a_stack # << >>)
  /\ UNCHANGED << outsideApp, a_waits, a_thread, a_man_btn, a_dyn_btn, a_form, a_stack,
                  a_window, a_done, a_close >>

\* Mutant of close: the application is destroyed whatever current_process
\* holds.
close_unchecked ==
  /\ a_window = "open"
  /\ a_window' = "destroyed"
  /\ a_close' = "destroyed"
  /\ a_reentered' = (a_reentered \/ a_stack # << >>)
  /\ UNCHANGED << outsideApp, a_failed, a_waits, a_thread, a_proc, a_current, a_stop_btn, a_man_btn,
                  a_dyn_btn, a_form, a_stack, a_done, a_stopped >>

\* App.close: a warning while current_process is set, else destroy().
close ==
  /\ a_window = "open"
  /\ IF a_current # 0
       THEN /\ a_close' = "warning"
            /\ UNCHANGED a_window
       ELSE /\ a_window' = "destroyed"
            /\ a_close' = "destroyed"
  /\ a_reentered' = (a_reentered \/ a_stack # << >>)
  /\ UNCHANGED << outsideApp, a_failed, a_waits, a_thread, a_proc, a_current, a_stop_btn, a_man_btn,
                  a_dyn_btn, a_form, a_stack, a_done, a_stopped >>

AppNext ==
  \/ get_dynamic_frame
  \/ open_how_to
  \/ \E s \in Scans : StartPress(s)
  \/ StartResume
  \/ \E s \in Scans : ThreadPopen(s)
  \/ \E s \in Scans : ThreadAssign(s)
  \/ \E s \in Scans : ThreadCheck(s)
  \/ \E s \in Scans : ThreadCall(s)
  \/ \E s \in Scans : AppProcessExit(s)
  \/ \E s \in Scans : ThreadWait(s)
  \/ \E s \in Scans : on_thread_complete(s)
  \/ AppStopScan
  \/ close

AppSpec == AppInit /\ [][AppNext]_vars

\* The threads of the scans and the main loop are scheduled, and a process
\* that runs ends.
AppFairness ==
  /\ WF_vars(StartResume)
  /\ \A s \in Scans :
       /\ WF_vars(ThreadPopen(s))
       /\ WF_vars(ThreadAssign(s))
       /\ WF_vars(ThreadCheck(s))
       /\ WF_vars(ThreadCall(s))
       /\ WF_vars(AppProcessExit(s))
       /\ WF_vars(ThreadWait(s))
       /\ WF_vars(on_thread_complete(s))

FairAppSpec == AppSpec /\ AppFairness

ReportInit ==
  /\ SchedState(<< >>, 1, FALSE, "idle")
  /\ f_mode \in {"single_ip", "subnet", "subnet_list"}
  /\ f_pc = IF f_mode = "subnet_list" THEN "probe" ELSE "parse"
  /\ f_flag = FALSE
  /\ f_cont = 1
  /\ f_targets \in IF f_mode = "single_ip"
                     THEN { << Addr(h) >> : h \in Hosts }
                     ELSE { << >> }
  /\ f_report \in IF f_mode = "single_ip"
                    THEN UNION { SingleReports(h) : h \in { x \in Hosts : f_targets = << Addr(x) >> } }
                    ELSE Reports
  /\ host_list = << >>
  /\ f_idx = 0
  /\ active_hosts = {}
  /\ current_ip = NoIp
  /\ active_ips = << >>
  /\ f_pending = {}
  /\ repeated = {}
  /\ f_calls = << >>
  /\ f_ret = NoRet
  /\ f_probe = IF f_mode = "subnet_list" THEN "none" ELSE "ok"
  /\ f_diag = << >>
  /\ f_nmap = << >>
  /\ f_io = "none"
  /\ f_done = << >>
  /\ MainOff
  /\ GuiOff

\* scan_subnet_and_save_results reads the next line of the given report.
ParseSubnetReportLine ==
  /\ f_mode = "subnet"
  /\ f_pc = "parse"
  /\ f_idx < Len(f_report)
  /\ active_hosts' = SubnetStep(active_hosts, f_report[f_idx + 1])
  /\ f_idx' = f_idx + 1
  /\ UNCHANGED << schedVars, mainVars, guiVars, f_nmap, f_io, f_done, f_diag, f_probe, f_report, f_mode, f_pc, f_flag, f_cont,
                  f_targets, host_list, current_ip, active_ips, f_pending,
                  repeated, f_calls, f_ret >>

\* scan_multiple_subnets_manager reads the next line of the given report.
ParseBatchReportLine ==
  /\ f_mode = "subnet_list"
  /\ f_pc = "parse"
  /\ f_idx < Len(f_report)
  /\ LET st == BatchStep([active_hosts |-> active_hosts, current_ip |-> current_ip],
                         f_report[f_idx + 1])
     IN /\ active_hosts' = st.active_hosts
        /\ current_ip' = st.current_ip
  /\ f_idx' = f_idx + 1
  /\ UNCHANGED << schedVars, mainVars, guiVars, f_nmap, f_io, f_done, f_diag, f_probe, f_report, f_mode, f_pc, f_flag, f_cont,
                  f_targets, host_list, active_ips, f_pending, repeated,
                  f_calls, f_ret >>

\* scan_single_ip on the given report of its probe: is_ip_active looks for
\* the summary, and the address goes to the scheduler when it is found.
ParseSingleReport ==
  /\ f_mode = "single_ip"
  /\ f_pc = "parse"
  /\ LET r == is_ip_active([type |-> "ok", up |-> SummaryUp(f_report), exc |-> ""])
     IN /\ f_calls' = IF r.val
                        THEN Append(f_calls, Call(<< f_targets[1] >>, 1, f_flag))
                        ELSE f_calls
        /\ FrontReturn(Returned(r.val))
  /\ f_idx' = Len(f_report)
  /\ UNCHANGED << schedVars, mainVars, guiVars, f_nmap, f_io, f_done, f_diag, f_probe, f_report, f_mode, f_flag, f_cont, f_targets,
                  host_list, active_hosts, current_ip, active_ips, f_pending,
                  repeated >>

\* The loop over output.splitlines() of scan_multiple_subnets_manager has read
\* the whole report: the live set goes to the scheduler and 0 is returned.
BatchReportEnd ==
  /\ f_idx = Len(f_report)
  /\ SnlFinish

ReportNext ==
  \/ ParseSubnetReportLine
  \/ SnlProbe
  \/ ParseBatchReportLine
  \/ BatchReportEnd
  \/ ParseSingleReport

ReportSpec == ReportInit /\ [][ReportNext]_vars

\* ============================================================== properties
\* ------------------------------------------------------------------- C1
\* C1: in every reachable state of a run of start_docker_containers the
\* number of jobs inside a worker, and so the number of jobs whose external
\* scan process is alive, is at most the limit; with limit 1 no two jobs run
\* at the same time.
C1_ConcurrencyBound ==
  /\ ProcessRunning \subseteq Busy
  /\ Cardinality(Busy) <= max_containers
  /\ Cardinality(ProcessRunning) <= max_containers

\* A job waits in the queue while the only slot is taken by a live process.
C1_Witness ==
  /\ max_containers = 1
  /\ Len(ip_list) = 2
  /\ Cardinality(ProcessRunning) = 1
  /\ \E j \in Jobs : future[j] = "PENDING"

\* ------------------------------------------------------------------- C2
TerminalStates == {"Succeeded", "Failed", "TimedOut", "Cancelled"}

\* The ScanJob state of job j, read off its future: the terminal class is the
\* one the drain loop's branches distinguish.
JobState(j) ==
  IF future[j] \in {"NONE", "PENDING"} THEN "Pending"
  ELSE IF future[j] = "RUNNING" THEN "Running"
  ELSE LET b == DrainBranch(result[j]) IN
         IF b = "ok" THEN "Succeeded"
         ELSE IF b = "timeout" THEN "TimedOut"
         ELSE IF b = "cancelled" THEN "Cancelled"
         ELSE "Failed"

\* C2: every step moves a job only along Pending -> Running -> one terminal
\* state; a terminal state is entered from Running only and never left.
C2_JobStateMachine ==
  [][ \A j \in Jobs :
        \/ JobState(j)' = JobState(j)
        \/ JobState(j) = "Pending" /\ JobState(j)' = "Running"
        \/ JobState(j) = "Running" /\ JobState(j)' \in TerminalStates ]_vars

\* One job is in a terminal failure state while its sibling is Running.
C2_Witness ==
  \E j, k \in Jobs :
    /\ JobState(j) \in {"Failed", "TimedOut", "Cancelled"}
    /\ JobState(k) = "Running"

\* ------------------------------------------------------------------- C3
\* Jobs the drain loop has folded through one of the given branches.
Folded(branches) == { j \in Jobs : branch_taken[j] \in branches }

Succeeded == Cardinality(Folded({"ok"}))

Failed == Cardinality(Folded({"error_code", "unexpected"}))

TimedOut == Cardinality(Folded({"timeout"}))

Cancelled == Cardinality(Folded({"cancelled"}))

\* C3: when the run has ended, the counts by terminal state add up to the
\* number of submitted jobs, and so does the progress counter.
C3_SummaryTotals ==
  pc = "done" =>
    /\ Succeeded + Failed + TimedOut + Cancelled = Len(ip_list)
    /\ completed = Len(ip_list)
    /\ n_submitted = Len(ip_list)

\* A finished run with a mixed outcome: one success, one timeout.
C3_Witness ==
  /\ pc = "done"
  /\ Succeeded = 1
  /\ TimedOut = 1

\* ------------------------------------------------------------------- C4
\* The host of the k-th job to finish.
CompletedHost(k) == ip_list[completion_order[k]]

\* Progress updates emitted for host h.
UpdatesFor(h) == { k \in 1..Len(updates) : updates[k].ip = h }

\* C4 as stated: the k-th progress update is for the k-th job to complete,
\* and in Plain mode it carries the counter value k.
C4_CompletionOrder ==
  \A k \in 1..Len(updates) :
    /\ updates[k].ip = CompletedHost(k)
    /\ flag_sim => updates[k].completed = k

\* C4 as amended: one update per terminal job, emitted after the job has
\* finished, counting 1, 2, ..., N; the jobs found finished when the drain
\* loop starts come first in any order, the later ones in completion order.
C4_OneUpdatePerJob ==
  /\ \A k \in 1..Len(updates) :
       /\ updates[k].completed = k
       /\ updates[k].total = Len(ip_list)
       /\ IF k > n_prefinished
            THEN updates[k].ip = CompletedHost(k)
            ELSE updates[k].ip \in { CompletedHost(m) : m \in 1..n_prefinished }
  /\ \A j \in Jobs :
       /\ Cardinality(UpdatesFor(ip_list[j])) = IF branch_taken[j] = "none" THEN 0 ELSE 1
       /\ branch_taken[j] # "none" => future[j] = "FINISHED"
  /\ pc = "done" => Len(updates) = Len(ip_list)

\* Two jobs finished while the drain loop was waiting and were reported in
\* the order in which they finished, the later-submitted one first.
C4_Witness ==
  /\ n_prefinished = 0
  /\ Len(updates) = 2
  /\ completion_order = << 2, 1 >>
  /\ updates[1].ip = ip_list[2]

\* ------------------------------------------------------------------- C5
ToolNotFound == [type |-> "raise", code |-> 0, exc |-> "FileNotFoundError"]

\* Worker threads that exist and have not returned.
LiveWorkers == w_get + w_release + Cardinality(Busy)

\* C5: each job ends with the outcome of its own process whatever its
\* siblings did; a queued job always has a live worker to run it; when the
\* run has ended every job was started and finished, and if the scan binary
\* is missing every job ended with ToolNotFound (-3).
C5_SiblingIndependence ==
  /\ \A j \in Jobs :
       future[j] = "FINISHED" =>
         result[j] = run_container(proc_result[ip_list[j]], flag_sim)
  /\ (work_queue # << >> /\ pc # "adjust") => LiveWorkers >= 1
  /\ pc = "done" =>
       \A j \in Jobs :
         /\ future[j] = "FINISHED"
         /\ launches[j] = IF proc_result[ip_list[j]].type = "exit" THEN 1 ELSE 0
  /\ (pc = "done" /\ \A h \in Range(ip_list) : proc_result[h] = ToolNotFound) =>
       \A j \in Jobs :
         /\ result[j] = [kind |-> "ret", code |-> -3, exc |-> ""]
         /\ branch_taken[j] = "error_code"

\* With one slot, the first job failed for a missing binary and the second
\* was then launched and succeeded.
C5_Witness ==
  /\ pc = "done"
  /\ max_containers = 1
  /\ completion_order = << 1, 2 >>
  /\ result[1].code = -3
  /\ launches[2] = 1
  /\ result[2] = [kind |-> "ret", code |-> 0, exc |-> ""]

\* ------------------------------------------------------------------- C6
ErrorBranches == {"timeout", "cancelled", "unexpected"}

\* C6: a future whose result() raises takes exactly one of the except
\* branches, gets exactly one progress update, advances the counter by one,
\* and the loop goes on until every future has been drained.
C6_ErrorPathRecordedOnce ==
  /\ completed = Cardinality({ j \in Jobs : branch_taken[j] # "none" })
  /\ Len(updates) = completed
  /\ \A j \in Jobs :
       (result[j].kind = "exc" /\ branch_taken[j] # "none") =>
         /\ branch_taken[j] \in ErrorBranches
         /\ Cardinality(UpdatesFor(ip_list[j])) = 1
  /\ \A j \in Jobs :
       branch_taken[j] = "none" => UpdatesFor(ip_list[j]) = {}
  /\ pc = "done" => \A j \in Jobs : branch_taken[j] # "none"

\* The first drained future raised a timeout and the loop went on to drain
\* the second one.
C6_Witness ==
  /\ Len(updates) = 2
  /\ \E j \in Jobs : updates[1].ip = ip_list[j] /\ branch_taken[j] = "timeout"
  /\ \E j \in Jobs : updates[2].ip = ip_list[j] /\ branch_taken[j] = "cancelled"

\* ------------------------------------------------------------ fairness
\* Every thread of the program that can take a step eventually takes it.
\* Nothing is assumed about the external scan processes: ProcessExit is not
\* under fairness, a scan may run forever.
ThreadFairness ==
  /\ WF_vars(Submit)
  /\ WF_vars(AdjustThreadCount)
  /\ WF_vars(WorkerGet)
  /\ WF_vars(\E j \in Jobs : LaunchProcess(j))
  /\ WF_vars(\E j \in Jobs : LaunchFail(j))
  /\ WF_vars(WorkerRelease)
  /\ WF_vars(WorkerExit)
  /\ WF_vars(AsCompleted)
  /\ WF_vars(\E j \in Jobs : DrainPrefinished(j))
  /\ WF_vars(DrainWaiter)
  /\ WF_vars(Shutdown)
  /\ WF_vars(Join)

FairSpec == Spec /\ ThreadFairness

\* ------------------------------------------------------------------- C7
\* Slots of the pool not occupied by a job: worker threads that exist and are
\* not inside work_item.run(), plus threads the pool may still spawn.
FreeSlots == (max_workers - num_threads) + w_get + w_release

\* Jobs that have left the Pending state.
Started == Cardinality({ j \in Jobs : future[j] \in {"RUNNING", "FINISHED"} })

\* Every external scan process ends: a process that is alive eventually
\* exits.
ProcessesTerminate ==
  \A j \in Hosts : WF_vars(j \in Jobs /\ ProcessExit(j))

TerminatingSpec == FairSpec /\ ProcessesTerminate

\* C7: while the pool is open, running jobs plus free slots equal the limit;
\* every terminal transition, whatever the outcome, frees one slot; and
\* whenever a job is pending while fewer than limit jobs run, one more job
\* is eventually started.
C7_NoSlotLeak ==
  /\ [](~shutdown => Cardinality(Busy) + FreeSlots = max_containers)
  /\ [][ \A j \in Jobs :
           (future[j] = "RUNNING" /\ future'[j] = "FINISHED") =>
             /\ FreeSlots' = FreeSlots + 1
             /\ Cardinality(Busy)' = Cardinality(Busy) - 1 ]_vars
  /\ \A k \in 0..MaxHosts :
       ( /\ Started = k
         /\ \E j \in Jobs : future[j] = "PENDING"
         /\ Cardinality(Busy) < max_containers )
         ~> (Started > k)

\* A job is pending behind a job that ended with an exception, the slot of
\* which is free again.
C7_Witness ==
  /\ max_containers = 1
  /\ \E j \in Jobs : future[j] = "FINISHED" /\ result[j].kind = "exc"
  /\ \E j \in Jobs : future[j] = "PENDING"
  /\ Busy = {}
  /\ FreeSlots = 1

\* ------------------------------------------------------------------- C8
\* The classification C8 states, written as a table over what the scan
\* process did.
C8_Table(pr) ==
  IF pr.type = "exit" THEN (IF pr.code = 0 THEN 0 ELSE -5)
  ELSE IF pr.exc = "FileNotFoundError" THEN -3
  ELSE IF pr.exc = "PermissionError" THEN -4
  ELSE IF IsInstance(pr.exc, "OSError") THEN -6
  ELSE -2

\* C8: in both modes a finished job whose run_container returned carries the
\* code of the table; not-found and permission failures are never -6 and a
\* non-zero exit is never -2.
C8_Classification ==
  \A j \in Jobs :
    LET pr == proc_result[ip_list[j]] IN
      (future[j] = "FINISHED" /\ pr.type # "escape") =>
        /\ result[j].kind = "ret"
        /\ result[j].code = C8_Table(pr)
        /\ result[j].code = run_container(pr, ~flag_sim).code
        /\ (pr.exc \in {"FileNotFoundError", "PermissionError"}) => result[j].code # -6
        /\ (pr.type = "exit" /\ pr.code # 0) => result[j].code # -2

\* In Decorated mode one job ended on a permission failure and one on a
\* non-zero exit code.
C8_Witness ==
  /\ ~flag_sim
  /\ \E j \in Jobs :
       /\ proc_result[ip_list[j]].exc = "PermissionError"
       /\ result[j].code = -4
  /\ \E j \in Jobs :
       /\ proc_result[ip_list[j]].type = "exit"
       /\ result[j].code = -5

\* ------------------------------------------------------------------- C9
\* The host an entry of a list passed to the scheduler stands for: the entry
\* itself when it is an address object, else the address its text spells.
HostNamed(x) == IF f_mode \in ObjectModes THEN x ELSE validate_ip(x).obj

C10_SubmittedOnce ==
  /\ \A h \in Range(ip_list) : submits[h] <= 1
  /\ pc \notin {"submit", "adjust"} => \A h \in Range(ip_list) : submits[h] = 1
  /\ \A j \in Jobs : launches[j] <= 1
  /\ \A a, b \in 1..Len(completion_order) :
       a # b => completion_order[a] # completion_order[b]

\* A run has ended in which a job failed with a non-zero exit code: its
\* process was launched once and its host submitted once.
C10_Witness ==
  /\ pc = "done"
  /\ \E j \in Jobs :
       /\ result[j].code = -5
       /\ launches[j] = 1
       /\ submits[ip_list[j]] = 1


\* ------------------------------------------------------------------ C11
\* The host an announcement line names.
HostOfLine(line) == CHOOSE h \in Hosts : HasChar(LastToken(line), ToString(h))

\* The bare address an announcement line announces.
Announced(line) == Addr(HostOfLine(line))

\* The line writes its address as a bracketed literal.
IsBracketed(line) == LastToken(line) = Bracketed(HostOfLine(line))

\* The address on record for an announcement line: the bare address, but the
\* last token as it stands when that is a bracketed literal.
Recorded(line) == IF IsBracketed(line) THEN LastToken(line) ELSE Announced(line)

\* Announcement lines of `lines` that a confirmation line follows before the
\* next announcement line.
ConfirmedAt(lines) ==
  { i \in DOMAIN lines :
      /\ lines[i].kind = "report"
      /\ \E j \in (i + 1)..Len(lines) :
           /\ lines[j].kind = "up"
           /\ \A k \in (i + 1)..(j - 1) : lines[k].kind # "report" }

\* The report lines read so far.
LinesRead == SubSeq(f_report, 1, f_idx)

\* C11: after any number of lines of any report, the live set of the batch
\* parser is exactly the set of addresses whose announcement is followed by a
\* confirmation before the next announcement; the candidate is the last
\* announcement while it is unconfirmed, so a confirmation without a pending
\* candidate adds nothing.
C11_BatchLiveSet ==
  (f_mode = "subnet_list" /\ f_pc = "parse") =>
    LET lines == LinesRead
        ann == { i \in DOMAIN lines : lines[i].kind = "report" }
        last == CHOOSE i \in ann : \A x \in ann : x <= i
    IN /\ active_hosts = { Recorded(lines[i]) : i \in ConfirmedAt(lines) }
       /\ current_ip = IF ann # {} /\ last \notin ConfirmedAt(lines)
                         THEN Recorded(lines[last])
                         ELSE NoIp

\* Two hosts announced in a row and then two confirmations: only the second
\* host is live.
C11_Witness ==
  /\ f_mode = "subnet_list"
  /\ f_idx = 4
  /\ [k \in 1..4 |-> f_report[k].kind] = << "report", "report", "up", "up" >>
  /\ Announced(f_report[1]) # Announced(f_report[2])
  /\ active_hosts = { Announced(f_report[2]) }
  /\ current_ip = NoIp


\* ------------------------------------------------------------------ C12
\* Addresses on record for the announcement lines of `lines`.
AnnouncedIn(lines) ==
  { Recorded(lines[i]) : i \in { k \in DOMAIN lines : lines[k].kind = "report" } }

\* The live set of a single-address run: what it hands to the scheduler.
SingleLiveSet == IF f_calls = << >> THEN {} ELSE Range(f_calls[1].ip_list)

AnnouncementsRead == { k \in 1..f_idx : f_report[k].kind = "report" }

\* What the parser reading the report has on record for the announcement
\* line it has just read.
JustRecorded(ip) ==
  IF f_mode = "subnet" THEN ip \in active_hosts ELSE current_ip = ip

\* C13 as stated: the address recorded for an announcement line is the bare
\* address, also when the line gives it in parentheses or in brackets, and
\* both parsers extract it.
C13_BareAddress ==
  (f_mode \in {"subnet", "subnet_list"} /\ f_pc = "parse") =>
    /\ \A k \in AnnouncementsRead :
         /\ SubnetParseIp(f_report[k]) = Announced(f_report[k])
         /\ BatchParseIp(f_report[k]) = Announced(f_report[k])
    /\ f_idx \in AnnouncementsRead => JustRecorded(Announced(f_report[f_idx]))
    /\ active_hosts \subseteq { Addr(h) : h \in Hosts }

\* C13 as amended: the recorded address is the bare address when the line
\* gives it plainly or in parentheses after a name, and the last token with
\* its brackets when the line gives it as a bracketed literal; it never
\* carries a parenthesis or the name, and both parsers extract the same.
C13_ParenthesesOnly ==
  (f_mode \in {"subnet", "subnet_list"} /\ f_pc = "parse") =>
    /\ \A k \in AnnouncementsRead :
         /\ SubnetParseIp(f_report[k]) = Recorded(f_report[k])
         /\ BatchParseIp(f_report[k]) = SubnetParseIp(f_report[k])
    /\ f_idx \in AnnouncementsRead => JustRecorded(Recorded(f_report[f_idx]))
    /\ \A ip \in active_hosts \cup ({ current_ip } \ { NoIp }) :
         /\ ~HasChar(ip, "(")
         /\ ~HasChar(ip, ")")
         /\ ip # DnsName
         /\ \E h \in Hosts : ip \in { Addr(h), Bracketed(h) }

\* The batch parser has confirmed a host announced after its name in
\* parentheses and one announced as a bracketed literal: the first is on
\* record bare, the second with its brackets.
C13_Witness ==
  /\ f_mode = "subnet_list"
  /\ \E a, b \in AnnouncementsRead :
       /\ LastToken(f_report[a]) = Parenthesised(HostOfLine(f_report[a]))
       /\ IsBracketed(f_report[b])
       /\ active_hosts = { Announced(f_report[a]), LastToken(f_report[b]) }


\* ------------------------------------------------------------------ C14
\* The failures of a probe the claim names: the tool is missing, it ends
\* with a non-zero exit code, its output cannot be decoded.
ProbeFailures == {"FileNotFoundError", "CalledProcessError", "UnicodeDecodeError"}

\* A step in which a liveness probe ends: is_ip_active returns or raises, or
\* nmap has run on the subnet or on the list file.
ProbeStep ==
  \/ f_mode \in {"single_ip", "single_ip_arg", "subnet"} /\ f_pc = "start" /\ f_pc' # "start"
  \/ f_mode = "subnet_list" /\ f_pc = "probe" /\ f_pc' # "probe"
  \/ f_pc = "probe" /\ f_pending' # f_pending

\* What every failed probe leaves behind: no host on record, no call of the
\* scheduler.
NothingYielded ==
  /\ f_calls' = f_calls
  /\ active_hosts' = {}
  /\ active_ips' = active_ips

ListFileResolved == f_mode = "subnet_list" /\ f_pc = "start" /\ f_pc' = "probe"

\* C20: whatever the lines of the list file, the targets resolved from it are
\* the networks of its valid lines, each once; every line that is not valid
\* is reported and skipped, and the lines after it are still read.  The file
\* 10.0.0.1, not-an-ip, 10.0.0.1 resolves to one target with one diagnostic.
C20_ValidDeduplicated ==
  [][ ListFileResolved =>
        LET lines == f_targets
            good == { k \in DOMAIN lines : validate_subnet(lines[k]).ok }
            nets == { validate_subnet(lines[k]).obj : k \in good }
        IN /\ Range(host_list') = nets
           /\ Len(host_list') = Cardinality(nets)
           /\ Len(f_diag') = Len(lines) - Cardinality(good)
           /\ Range(f_diag') = { lines[k] : k \in DOMAIN lines \ good }
           /\ lines = << Addr(1), BadText, Addr(1) >> =>
                /\ host_list' = << Network("host", 1) >>
                /\ f_diag' = << BadText >> ]_vars

\* A list file with a line that is not valid has been resolved to one target:
\* the line was reported and the manager has gone on to the probe.
C20_Witness ==
  /\ f_mode = "subnet_list"
  /\ f_pc = "probe"
  /\ f_diag = << BadText >>
  /\ host_list = << Network("host", 1) >>
  /\ f_targets = << Host32(1) >>


\* ------------------------------------------------------------------ C15
\* Nothing was started after the validation: no manager was entered, so no
\* probe ran and no job was submitted.
NothingStarted == f_pc = "wait" /\ f_probe = "none" /\ f_calls = << >>

\* The status main returns from the log-parsing step.
LogStatus ==
  CASE m_logs = "empty" -> -6
    [] m_logs = "failed" -> LogParserError
    [] OTHER -> 0

\* scan_multiple_subnets_manager has returned before the probe: the list
\* file could not be read or written back.
ListFileUnreadable == f_mode = "subnet_list" /\ f_pc = "done" /\ f_probe = "none"

ZeroLiveHosts ==
  /\ f_mode \in {"subnet", "subnet_list"}
  /\ f_probe = "ok"
  /\ f_pc = "done"
  /\ f_calls = << >>

\* A run that ended in an error: the target given on the command line was
\* refused, the list file could not be read, or the probe failed.
FatalError ==
  \/ m_rejected /\ m_front # "menu"
  \/ ListFileUnreadable
  \/ f_probe \notin {"none", "ok"}

\* What main returns for a run without live hosts whose logs directory is
\* empty (orchestrator.py, line 182).
NothingToDoStatus == -6

C16_ZeroLiveReached ==
  /\ f_mode = "subnet"
  /\ ZeroLiveHosts
  /\ m_pc = "exit"
  /\ ~m_kept
  /\ m_status = [kind |-> "ret", val |-> NothingToDoStatus]


\* ------------------------------------------------------------------ C17
\* What main returns for a run in which every job succeeded and the log
\* parser succeeded (orchestrator.py, line 190).
SuccessStatus == 0

C17_AllSucceededReached ==
  /\ m_pc = "exit"
  /\ m_jobs = "all_ok"
  /\ m_status = [kind |-> "ret", val |-> SuccessStatus]


\* ------------------------------------------------------------------ C18
\* The text given as the limit is a positive integer for int().
LimitPositive == int(m_limit).ok /\ int(m_limit).val > 0

\* C18: every call of the scheduler carries a positive integer as its limit,
\* whichever front end the run came from (the prompt of the address list, -c
\* on the command line, the form of the GUI); a limit given as a text that
\* is zero, negative or not a number is refused before the manager is
\* entered, so before any probe and any job; a limit that is accepted is the
\* one the scheduler is called with.
C18_PositiveLimit ==
  /\ \A k \in DOMAIN f_calls : f_calls[k].max_containers \in Nat \ {0}
  /\ (m_limit # NoLimit /\ ~LimitPositive) =>
       /\ m_pc \in {"form", "clear", "args", "exit"}
       /\ NothingStarted
  /\ (f_calls # << >> /\ f_mode \in {"subnet", "subnet_list"}) =>
       f_calls[1].max_containers =
         IF m_limit = NoLimit THEN DefaultContainers ELSE int(m_limit).val

\* The form of the GUI has let the limit "00" pass and handed it on as 0;
\* parse_arguments has refused it and nothing was started.
C18_Witness ==
  /\ m_front = "gui"
  /\ m_limit = << "0" >>
  /\ m_pc = "exit"
  /\ m_status = [kind |-> "usage", val |-> 2]
  /\ NothingStarted

\* The prompt of the address list has given the limit of a call.
C18_PromptReached ==
  /\ f_mode = "ip_list_manual"
  /\ f_calls # << >>
  /\ f_calls[1].max_containers = MaxLimit


\* ------------------------------------------------------------------ C19
\* The path main checks: os.path.join(input_files_dir, file name).
FilePath == InputDir \o m_file

\* The path, with its ".." components folded by abspath, lies in input_files.
InsideInputDir(path) ==
  /\ Len(abspath(path)) >= Len(InputDir)
  /\ SubSeq(abspath(path), 1, Len(InputDir)) = InputDir

\* A step in which main checks the path of the list file.
PathChecked == f_mode = "subnet_list" /\ m_pc = "validate"

BatchProbeInvoked == f_mode = "subnet_list" /\ f_probe = "none" /\ f_probe' # "none"

\* The networks the lines of a list file denote, the lines that are not valid
\* left out.
NetworksOf(lines) ==
  { validate_subnet(lines[k]).obj :
      k \in { i \in DOMAIN lines : validate_subnet(lines[i]).ok } }

\* Every line is valid and no two lines denote the same network.
Canonical(lines) ==
  /\ \A k \in DOMAIN lines : validate_subnet(lines[k]).ok
  /\ Len(lines) = Cardinality(NetworksOf(lines))

\* C21: the step that resolves the list file rewrites it with the networks of
\* its valid lines, each once, and no probe has run before it; the batch
\* probe is invoked only on a rewritten file and reads these lines and no
\* other; when the file cannot be read it is left as it was and the manager
\* returns without a probe and without a job.
C21_WriteBackBeforeProbe ==
  /\ [][ ListFileResolved =>
           /\ f_probe = "none" /\ f_probe' = "none"
           /\ Canonical(f_targets')
           /\ NetworksOf(f_targets') = NetworksOf(f_targets)
           /\ f_targets' = WrittenBack(host_list') ]_vars
  /\ [][ BatchProbeInvoked =>
           /\ f_io = "written"
           /\ f_nmap' = f_targets
           /\ f_targets' = f_targets
           /\ Canonical(f_nmap') ]_vars
  /\ [][ (f_mode = "subnet_list" /\ f_io' = "read_failed") =>
           f_targets' = f_targets ]_vars
  /\ []( (f_mode = "subnet_list" /\ f_io = "read_failed") =>
           (f_pc = "done" /\ f_probe = "none" /\ f_calls = << >>) )

\* A list file with a line written with host bits set, a line that is not
\* valid and the same network again was rewritten to one line, and the batch
\* probe has read that line.
C21_Witness ==
  /\ f_mode = "subnet_list"
  /\ f_probe = "ok"
  /\ f_diag = << BadText >>
  /\ Len(host_list) = 1
  /\ f_nmap = << Cidr(1) >>
  /\ f_targets = f_nmap



\* ------------------------------------------------------------------ C22
\* The subnet given is written in CIDR notation with host bits set.
HostBitsGiven(n) == f_mode = "subnet" /\ f_targets = << CidrHostBits(n) >>

\* The liveness probe of the subnet has been invoked.
SubnetProbed == f_mode = "subnet" /\ f_probe # "none"

\* C22 as stated: on every front-end path the probe of a subnet written with
\* host bits set is handed the network address, the host bits cleared.
C22_NormalizedOnEveryPath ==
  \A n \in Nets :
    (HostBitsGiven(n) /\ SubnetProbed) => f_nmap = Cidr(n)

\* C22 as amended: a subnet written with host bits set passes the validation
\* of every front end; the command line hands the probe the network object
\* (printed with the host bits cleared) and the form of the GUI puts the
\* cleared text on the command line, but the menu hands the probe the text
\* as it was typed, host bits included.
C22_NormalizedOnCommandLine ==
  /\ [](\A n \in Nets :
          (HostBitsGiven(n) /\ SubnetProbed) =>
            /\ m_front # "gui"
            /\ f_nmap = IF m_front = "cli" THEN Cidr(n) ELSE CidrHostBits(n))
  /\ []((SubnetProbed /\ m_front = "gui") =>
          (f_nmap = f_targets[1] /\ f_nmap = NetworkStr(validate_subnet(f_nmap).obj)))
  /\ [][ \A n \in Nets :
           (HostBitsGiven(n) /\ m_pc = "validate") => (m_pc' = "call" /\ f_pc' = "start") ]_vars
  /\ [][ \A n \in Nets :
           (HostBitsGiven(n) /\ m_pc = "form" /\ m_pc' # "exit") =>
             f_targets' = << Cidr(n) >> ]_vars

\* The menu was given a subnet with host bits set and its probe has run on
\* the text as typed.
C22_Witness ==
  /\ m_front = "menu"
  /\ HostBitsGiven(1)
  /\ f_probe = "ok"
  /\ f_nmap = CidrHostBits(1)

\* The command line was given a subnet with host bits set and its probe has
\* run on the network address.
C22_CommandLineReached ==
  /\ m_front = "cli"
  /\ HostBitsGiven(1)
  /\ f_probe = "ok"
  /\ f_nmap = Cidr(1)



\* ------------------------------------------------------------------ C23
\* The branch of the drain loop the process result of host h leads to.
OutcomeOf(h) == DrainBranch(run_container(proc_result[h], flag_sim))

\* Hosts of the run whose process result leads to one of the given branches.
HostsWith(branches) == { h \in Range(ip_list) : OutcomeOf(h) \in branches }

\* C23: when the run has ended, the counts of jobs by outcome and the number
\* of progress updates are those the set of hosts and the process result of
\* each host determine, whatever the order in which the hosts were submitted
\* and the order in which the jobs started and finished.
C23_OrderIndependent ==
  pc = "done" =>
    /\ Succeeded = Cardinality(HostsWith({"ok"}))
    /\ Failed = Cardinality(HostsWith({"error_code", "unexpected"}))
    /\ TimedOut = Cardinality(HostsWith({"timeout"}))
    /\ Cancelled = Cardinality(HostsWith({"cancelled"}))
    /\ Len(updates) = Cardinality(Range(ip_list))
    /\ completed = Cardinality(Range(ip_list))

\* Host 2 was submitted before host 1, the job of host 1 finished first, one
\* job succeeded and one failed.
C23_Witness ==
  /\ pc = "done"
  /\ ip_list = << 2, 1 >>
  /\ completion_order = << 2, 1 >>
  /\ OutcomeOf(1) = "error_code"
  /\ OutcomeOf(2) = "ok"
  /\ Succeeded = 1
  /\ Failed = 1



\* ------------------------------------------------------------------ C25
\* Finished futures the drain loop can take next or has taken.
Drainable == prefinished \cup Range(waiter_finished) \cup Folded({"ok", "error_code", "timeout", "cancelled", "unexpected"})

\* C25: the submitting thread can always take its next step, whatever the
\* jobs submitted so far are doing; the drain loop starts, and the first
\* progress update is emitted, only when every host has been submitted; and
\* every future that has finished is at the disposal of the drain loop,
\* whatever its place in the order of submission.
C25_SubmitDecoupled ==
  /\ pc = "submit" => (n_submitted < Len(ip_list) /\ ENABLED Submit)
  /\ pc = "adjust" => ENABLED AdjustThreadCount
  /\ (waiter \/ updates # << >> \/ pc \notin {"submit", "adjust"}) =>
       /\ n_submitted = Len(ip_list)
       /\ \A j \in Jobs : future[j] # "NONE"
  /\ pc = "drain" => \A j \in Jobs : future[j] = "FINISHED" => j \in Drainable

\* The job submitted second was drained while the job submitted first is
\* still running.
C25_Witness ==
  /\ Len(ip_list) = 2
  /\ future[1] = "RUNNING"
  /\ Len(updates) = 1
  /\ updates[1].ip = ip_list[2]

\* The second host is about to be submitted while the first job is running.
C25_SubmitWhileRunning ==
  /\ pc = "submit"
  /\ n_submitted = 1
  /\ future[1] = "RUNNING"



\* ------------------------------------------------------------------ C26
\* C26: when every thread that can take a step eventually takes it and every
\* external scan process ends, every host is submitted, every job reaches a
\* terminal state and is drained, and start_docker_containers returns; this
\* for every list of hosts and every limit from 1 on.
C26_AllJobsTerminate ==
  /\ <>[](pc = "done")
  /\ <>(\A j \in Jobs : future[j] = "FINISHED" /\ branch_taken[j] # "none")
  /\ \A j \in Hosts :
       (j \in Jobs /\ future[j] \in {"PENDING", "RUNNING"}) ~>
         (j \in Jobs /\ future[j] = "FINISHED" /\ JobState(j) \in TerminalStates)

\* With one slot, two hosts were scanned one after the other, both processes
\* have exited and the function has returned.
C26_Witness ==
  /\ pc = "done"
  /\ max_containers = 1
  /\ Len(ip_list) = 2
  /\ \A j \in Jobs : launches[j] = 1 /\ proc_result[ip_list[j]].type = "exit"
  /\ num_threads = 1



\* ------------------------------------------------------------------ C29
\* What the scheduling of the jobs consists of: the futures, the workers, the
\* queue and the slots, the processes and their results.
schedulingVars ==
  << future, result, stage, work_queue, idle_semaphore, num_threads, w_get,
     w_release, launches, proc_result, shutdown >>

\* C29: the outcome stored for a finished job, and the branch the drain loop
\* takes for it, are those the other presentation mode gives for the same
\* process result; a job that finishes frees its slot in the same step in
\* either mode; a step that emits a progress update emits one update and
\* changes nothing of the scheduling; a finished run has emitted one update
\* per host in either mode.
C29_ModeIsObserver ==
  /\ [](\A j \in Jobs :
          future[j] = "FINISHED" =>
            /\ result[j] = run_container(proc_result[ip_list[j]], TRUE)
            /\ result[j] = run_container(proc_result[ip_list[j]], FALSE))
  /\ [](\A j \in Jobs :
          branch_taken[j] # "none" =>
            branch_taken[j] = DrainBranch(run_container(proc_result[ip_list[j]], ~flag_sim)))
  /\ [][ \A j \in Jobs :
           (future[j] = "RUNNING" /\ future'[j] = "FINISHED") =>
             /\ w_release' = w_release + 1
             /\ result'[j] = run_container(proc_result'[ip_list[j]], ~flag_sim) ]_vars
  /\ [][ updates' # updates =>
           /\ Len(updates') = Len(updates) + 1
           /\ completed' = completed + 1
           /\ UNCHANGED schedulingVars ]_vars
  /\ [](pc = "done" => (Len(updates) = Len(ip_list) /\ completed = Len(ip_list)))

\* A Plain run has ended in which the scan of one host could not be started
\* for a permission failure and the scan of the other exited non-zero.
C29_Witness ==
  /\ flag_sim
  /\ pc = "done"
  /\ \E j, k \in Jobs :
       /\ proc_result[ip_list[j]].exc = "PermissionError" /\ result[j].code = -4
       /\ proc_result[ip_list[k]].type = "exit" /\ result[k].code = -5
  /\ Len(updates) = 2

\* A Decorated run has ended with the same results.
C29_DecoratedReached ==
  /\ ~flag_sim
  /\ pc = "done"
  /\ \E j, k \in Jobs :
       /\ proc_result[ip_list[j]].exc = "PermissionError" /\ result[j].code = -4
       /\ proc_result[ip_list[k]].type = "exit" /\ result[k].code = -5
  /\ Len(updates) = 2



\* ------------------------------------------------------------------ C30
\* The fan-out of scan_ip_list_manager is over: every probe was drained and
\* active_ips deduplicated.
FanOutMerged == f_mode \in {"ip_list_manual", "ip_list_file"} /\ f_pc = "done" /\ f_probe # "none"

\* Entries whose probe ended in the given way.
ProbedAs(how) == { k \in DOMAIN f_done : f_done[k] = how }

\* C30: in whatever order the probes complete, every entry is probed once;
\* the merged list holds exactly the entries whose probe returned True, each
\* once; a probe that raises is absorbed by the loop, which goes on to the
\* probes still pending, and the entries found live by the other probes are
\* merged and handed to the scheduler.
C30_FanOutMerge ==
  /\ [](FanOutMerged =>
          /\ DOMAIN f_done = DOMAIN host_list
          /\ Range(active_ips) = { host_list[k] : k \in ProbedAs("up") }
          /\ \A a, b \in DOMAIN active_ips : a # b => active_ips[a] # active_ips[b]
          /\ f_calls # << >> <=> ProbedAs("up") # {} /\ f_ret.kind = "ret"
          /\ f_calls # << >> => f_calls[1].ip_list = active_ips)
  /\ [][ \A i \in DOMAIN host_list :
           (f_pc = "probe" /\ i \in f_pending /\ i \notin f_pending') =>
             /\ f_pending' = f_pending \ {i}
             /\ f_pc' = "probe"
             /\ i \notin DOMAIN f_done /\ i \in DOMAIN f_done'
             /\ f_done'[i] # "up" => active_ips' = active_ips
             /\ f_done'[i] = "up" => active_ips' = Append(active_ips, host_list[i]) ]_vars

\* Of three entries the probe of one raised, and the two others, probed after
\* it and found live, were merged and handed to the scheduler.
C30_Witness ==
  /\ f_mode = "ip_list_manual"
  /\ f_pc = "done"
  /\ Len(host_list) = 3
  /\ Cardinality(ProbedAs("raised")) = 1
  /\ Cardinality(ProbedAs("up")) = 2
  /\ Len(active_ips) = 2
  /\ f_probe = "ok"
  /\ Len(f_calls) = 1



\* ------------------------------------------------------------------ C28
\* The batch manager has ended on the given report.
BatchEnded == f_mode = "subnet_list" /\ f_pc = "done"

\* nmap -sn -iL ended with exit code 0 and its output was decoded: nothing
\* was raised, whether or not it wrote to its standard error.
BatchExitZero == f_probe \in {"ok", "stderr"}

\* The hosts handed to the scheduler.
BatchScheduled == IF f_calls = << >> THEN {} ELSE Range(f_calls[1].ip_list)

\* The live set the standard output `lines` alone determines.
LiveOf(lines) == { Recorded(lines[i]) : i \in ConfirmedAt(lines) }

\* C28 as stated: when the batch probe exits with code 0 the hosts scheduled
\* are the live set of its standard output, whatever else it wrote.
C28_StdoutOnly ==
  (BatchEnded /\ BatchExitZero) => BatchScheduled = LiveOf(f_report)

\* C28 as amended: when the batch probe exits with code 0 and wrote nothing
\* to its standard error, the hosts scheduled are the live set of its
\* standard output, in one call of the scheduler when the set is not empty,
\* and 0 is returned; when it wrote anything to its standard error the
\* manager returns -3 and schedules nothing, whatever its standard output.
C28_StdoutWhenStderrEmpty ==
  BatchEnded =>
    /\ f_probe = "ok" =>
         /\ BatchScheduled = LiveOf(f_report)
         /\ Len(f_calls) = IF LiveOf(f_report) = {} THEN 0 ELSE 1
         /\ f_ret = Returned(0)
    /\ f_probe = "stderr" =>
         /\ f_calls = << >>
         /\ f_ret = Returned(-3)
         /\ f_idx = 0

\* The probe exited with code 0 and wrote nothing to its standard error; its
\* output confirms one of the two hosts it announces, and that host alone is
\* scheduled.
C28_Witness ==
  /\ BatchEnded
  /\ f_probe = "ok"
  /\ Cardinality(AnnouncedIn(f_report)) = 2
  /\ Cardinality(BatchScheduled) = 1

\* The probe exited with code 0 and wrote to its standard error: the host its
\* output confirms is not scheduled.
C28_StderrReached ==
  /\ BatchEnded
  /\ f_probe = "stderr"
  /\ LiveOf(f_report) # {}



\* ------------------------------------------------------------------ C27
\* main has returned the status v.
MainReturned(v) == m_pc = "exit" /\ m_status = Returned(v)

C27_RefusedSameStatus ==
  /\ m_clear = "ok"
  /\ MainReturned(-1)
  /\ m_rejected

\* main has returned 0 without a job: clear_directories has left an entry
\* in the logs directory.
C27_SuccessWithoutJob ==
  /\ MainReturned(SuccessStatus)
  /\ m_kept
  /\ f_calls = << >>



\* ------------------------------------------------------------------ C24
\* A call of stop_scan has ended with "Scan forcibly stopped by user.".
Stopped == \E k \in DOMAIN g_stop : g_stop[k] = "stopped"

C24_StopIgnored ==
  /\ g_stop = << "no_process" >>
  /\ g_container = "running"
  /\ JobsStarted # {}

\* killpg or docker rm has failed: the Stop button is disabled and the
\* container runs on.
C24_StopFailed ==
  /\ g_stop = << "error" >>
  /\ stop_btn = "disabled"
  /\ g_container = "running"

\* A job was started between killpg and the removal of the container.
C24_StartedAfterSignal ==
  /\ g_signal # << >>
  /\ JobsStarted # g_signal[1].started



\* ------------------------------------------------------------------ C31
\* The file name run_container passes to the scanner for entry x of the list
\* a call of the scheduler was given.
OutputFileOf(x) == OutputFile(IF f_mode \in ObjectModes THEN AddressStr(x) ELSE x)

\* C31: on every path into the scheduler no two jobs of the call, so no two
\* jobs that run at the same time, are given the same output file; the file
\* of a job is <host>_results.json in the logs directory, and a run makes at
\* most one call.
C31_DistinctOutputFiles ==
  /\ Len(f_calls) <= 1
  /\ \A k \in DOMAIN f_calls :
       LET hosts == f_calls[k].ip_list IN
         \A a, b \in DOMAIN hosts :
           /\ a # b => OutputFileOf(hosts[a]) # OutputFileOf(hosts[b])
           /\ OutputFileOf(hosts[a])[1] = "/usr/Orchestrator/logs/"
           /\ OutputFileOf(hosts[a])[Len(OutputFileOf(hosts[a]))] = "_results.json"
           /\ SubSeq(OutputFileOf(hosts[a]), 2, Len(OutputFileOf(hosts[a])) - 1)
                = (IF f_mode \in ObjectModes THEN AddressStr(hosts[a]) ELSE hosts[a])

\* A file of addresses that names a live host twice and another live host
\* once has led to a call with two jobs, each with an output file of its own.
C31_Witness ==
  /\ f_mode = "ip_list_file"
  /\ f_pc = "done"
  /\ Duplicated(host_list) # {}
  /\ Len(f_calls) = 1
  /\ Len(f_calls[1].ip_list) = 2
  /\ OutputFileOf(f_calls[1].ip_list[1]) # OutputFileOf(f_calls[1].ip_list[2])



\* ------------------------------------------------------------------ C32
\* scan_single_ip has ended, by a return or by an exception.
SingleEnded == f_mode \in {"single_ip", "single_ip_arg"} /\ f_pc = "done"

\* The one call scan_single_ip makes for the address it was given.
SingleCall ==
  Call(<< IF f_mode = "single_ip_arg" THEN validate_ip(f_targets[1]).obj ELSE f_targets[1] >>,
       1, f_flag)

C32_NotActiveReached ==
  /\ f_mode = "single_ip"
  /\ f_probe = "FileNotFoundError"
  /\ f_calls = << >>
  /\ m_status = Returned(-2)



C33_DestroyedAfterFailedStop ==
  /\ a_window = "destroyed"
  /\ a_stopped = "error"
  /\ Alive # {}

\* close() has destroyed the application while the thread of the scan had
\* started the process and not yet stored it.
C33_DestroyedBeforeAssign ==
  /\ a_window = "destroyed"
  /\ a_stopped = "none"
  /\ \E s \in Alive : a_thread[s] = "assign"



\* ---------------------------------------------------------------------------
\* clear_directories looked at on its own, on a list of directories.

MaxDirs == 2

\* The directories clear_directories can be given: of a directory that exists
\* only the listing and the entries matter, of a missing one only how
\* creating it ends.
DirectoryStates ==
  { d \in LogsDirs :
      /\ d.exists => d.mk = "ok"
      /\ ~d.exists => d.entries = << >> /\ d.listdir = "ok"
      /\ d.listdir # "ok" => d.entries = << >> }

\* What no step of a function looked at on its own changes.
outsideSide ==
  << schedVars, mainVars, managerVars, stopVars, appVars, f_mode, f_pc, f_flag,
     f_cont, f_targets >>

ClearInit ==
  /\ SchedState(<< >>, 1, FALSE, "idle")
  /\ FrontIdle
  /\ StopOff
  /\ AppOff
  /\ PipeOff
  /\ p_pc = "call"
  /\ p_in \in UNION { [1..n -> DirectoryStates] : n \in 1..MaxDirs }
  /\ p_out = << >>

\* clear_directories(directories) runs and returns.
ClearCall ==
  /\ p_pc = "call"
  /\ p_pc' = "cleared"
  /\ p_out' = clear_directories(p_in)
  /\ UNCHANGED << outsideSide, pipeVars, p_in >>

ClearNext == ClearCall

ClearSpec == ClearInit /\ [][ClearNext]_vars

\* The entries of the i-th directory that are regular files other than
\* README.md once clear_directories has returned: an entry os.remove found
\* to be a directory is none.
RegularLeft(i) ==
  { k \in p_out.after[i].left :
      /\ p_in[i].entries[k].kind = "file"
      /\ p_in[i].entries[k].rm # "IsADirectoryError" }

\* The README.md files of the i-th directory.
Readmes(i) ==
  { k \in DOMAIN p_in[i].entries : p_in[i].entries[k].kind = "README.md" }

\* The directory d makes clear_directories fail: it cannot be listed, a file
\* in it cannot be deleted for lack of permission or another OS error, or it
\* is missing and cannot be created.
CannotClear(d) ==
  IF d.exists
    THEN \/ d.listdir # "ok"
         \/ \E k \in DOMAIN d.entries :
              /\ d.entries[k].kind = "file"
              /\ d.entries[k].rm \in {"PermissionError", "OSError"}
    ELSE d.mk # "ok"

\* C34: clear_directories returns 0 only if afterwards every listed directory
\* exists and holds no regular file other than README.md, which is kept; it
\* returns -1 exactly when a directory cannot be listed, a file cannot be
\* deleted for lack of permission or another OS error, or a missing directory
\* cannot be created; a file that has vanished and an entry that is a
\* directory do not make it fail.
C34_ClearDirectories ==
  p_pc = "cleared" =>
    /\ p_out.ret \in {0, -1}
    /\ Len(p_out.after) = Len(p_in)
    /\ p_out.ret = 0 =>
         \A i \in DOMAIN p_in :
           /\ p_out.after[i].exists
           /\ RegularLeft(i) = {}
           /\ Readmes(i) \subseteq p_out.after[i].left
    /\ p_out.ret = -1 <=> \E i \in DOMAIN p_in : CannotClear(p_in[i])

\* C34 witness: clear_directories has returned 0 on two directories, the
\* first missing and created, the second with a README.md that stayed, a file
\* that had vanished and nothing else.
C34_Witness ==
  /\ p_pc = "cleared"
  /\ p_out.ret = 0
  /\ Len(p_in) = 2
  /\ ~p_in[1].exists
  /\ p_in[2].exists
  /\ \E k \in DOMAIN p_in[2].entries :
       /\ p_in[2].entries[k].kind = "file"
       /\ p_in[2].entries[k].rm = "FileNotFoundError"
  /\ Readmes(2) # {}
  /\ Readmes(2) = p_out.after[2].left

\* C34: reached too, -1 because a file of the second directory could not be
\* deleted, after the first directory was cleared.
C34_FailedOnSecond ==
  /\ p_pc = "cleared"
  /\ p_out.ret = -1
  /\ Len(p_in) = 2
  /\ ~CannotClear(p_in[1])
  /\ p_in[1].entries # << >>
  /\ p_out.after[1].left = {}


\* ---------------------------------------------------------------------------
\* A run of start_docker_containers with its caller: main stands in the call
\* of a manager, which has called start_docker_containers; when that returns
\* the manager returns and main goes on to the log parser.
RunInit ==
  /\ \E hosts \in HostLists, limit \in 1..MaxLimit, fs \in BOOLEAN :
       /\ SchedState(hosts, limit, fs, "submit")
       /\ f_calls = << Call(hosts, limit, fs) >>
  /\ f_mode = "none"
  /\ f_pc = "idle"
  /\ f_flag = FALSE
  /\ f_cont = 1
  /\ f_targets = << >>
  /\ host_list = << >>
  /\ f_idx = 0
  /\ active_hosts = {}
  /\ current_ip = NoIp
  /\ active_ips = << >>
  /\ f_pending = {}
  /\ repeated = {}
  /\ f_report = << >>
  /\ f_ret = NoRet
  /\ f_probe = "none"
  /\ f_diag = << >>
  /\ f_nmap = << >>
  /\ f_io = "none"
  /\ f_done = << >>
  /\ m_pc = "call"
  /\ m_front = "none"
  /\ m_limit = << >>
  /\ m_file = << >>
  /\ m_kept \in BOOLEAN
  /\ m_rejected = FALSE
  /\ m_jobs = "none"
  /\ m_logs = "unread"
  /\ m_status = NoRet
  /\ m_clear = "ok"
  /\ GuiOff

\* start_docker_containers has returned; the manager returns a value main
\* goes on with, and main comes to "Starting log parser...".
RunReturn ==
  /\ m_pc = "call"
  /\ pc = "done"
  /\ m_pc' = "logs"
  /\ UNCHANGED << schedVars, managerVars, guiVars, m_clear, f_mode, f_pc,
                  f_flag, f_cont, f_targets, m_front, m_limit, m_file, m_kept,
                  m_rejected, m_jobs, m_logs, m_status >>

RunNext ==
  \/ Next
  \/ RunReturn
  \/ MainLogs

RunSpec == RunInit /\ [][RunNext]_vars

\* C35: the log parser is come to only after start_docker_containers has
\* returned; it returns only when every submitted job is terminal and its
\* progress update was emitted, and then no worker is busy; so no scan
\* process runs when the logs directory is read and handed to the parser.
C35_ReportAfterScheduler ==
  /\ [](m_pc \in {"logs", "exit"} => pc = "done")
  /\ [](pc = "done" =>
          /\ n_submitted = Len(ip_list)
          /\ \A j \in Jobs :
               /\ future[j] = "FINISHED"
               /\ Cardinality(UpdatesFor(ip_list[j])) = 1
          /\ Busy = {})
  /\ [][m_logs' # m_logs => ProcessRunning = {} /\ JobsTerminal = Jobs]_vars

\* C35 witness: the directory of the outputs was read after a run of two
\* jobs, one whose scan ran and one whose scan could not be started.
C35_Witness ==
  /\ m_pc = "exit"
  /\ m_logs # "unread"
  /\ Len(ip_list) = 2
  /\ \E j, k \in Jobs : launches[j] > 0 /\ launches[k] = 0 /\ branch_taken[k] # "none"
  /\ ProcessRunning = {}


\* ---------------------------------------------------------------------------
\* C36 as stated: no job is taken by an except clause of the drain loop.
C36_NeverRaises == \A j \in Jobs : branch_taken[j] \notin ErrorBranches

\* C36: future.result() raises for a job exactly when an exception has left
\* run_container, which every exception of launching and running the scan
\* process does not: those are turned into an integer code. An exception
\* that has left it is taken by the first clause matching its class, the
\* timeout and the cancellation clause only for an exception of their own
\* class, so the drain loop itself times out and cancels no job.
C36_RaisesOnlyEscaped ==
  \A j \in Jobs :
    branch_taken[j] # "none" =>
      LET pr == proc_result[ip_list[j]] IN
        /\ branch_taken[j] \in ErrorBranches <=> pr.type = "escape"
        /\ pr.type # "escape" =>
             /\ result[j].kind = "ret"
             /\ result[j].code \in {0, -2, -3, -4, -5, -6}
        /\ branch_taken[j] = "timeout" => pr.exc = "TimeoutError"
        /\ branch_taken[j] = "cancelled" => pr.exc = "CancelledError"
        /\ (pr.type = "escape" /\ pr.exc \notin {"TimeoutError", "CancelledError"})
             => branch_taken[j] = "unexpected"

\* C36 witness: a run has ended in which a ValueError of the launch was
\* turned into -2 for one job and a ValueError left run_container for the
\* other, which the unexpected-error clause took.
C36_Witness ==
  /\ pc = "done"
  /\ \E j, k \in Jobs :
       /\ proc_result[ip_list[j]] = [type |-> "raise", code |-> 0, exc |-> "ValueError"]
       /\ result[j] = [kind |-> "ret", code |-> -2, exc |-> ""]
       /\ branch_taken[j] = "error_code"
       /\ proc_result[ip_list[k]] = [type |-> "escape", code |-> 0, exc |-> "ValueError"]
       /\ branch_taken[k] = "unexpected"


\* ---------------------------------------------------------------------------
\* The resolution of a list file looked at on its own: the file is read, its
\* valid lines are turned into networks, list(set(...)) puts them in some
\* order and the file is rewritten with str() of each; then the file that
\* was written is resolved once more.
MaxPasses == 2

\* One resolution of a file with these lines: the targets and the lines
\* written, for every order list(set(host_list)) can give.
Resolutions(lines) ==
  { [nets |-> nets, lines |-> WrittenBack(nets)] :
      nets \in Dedup(ValidatedSubnets(lines)) }

CanonInit ==
  /\ SchedState(<< >>, 1, FALSE, "idle")
  /\ FrontIdle
  /\ StopOff
  /\ AppOff
  /\ PipeOff
  /\ p_pc = "call"
  /\ p_in \in TargetsOf("subnet_list")
  /\ p_out = << >>

\* The file as it stands is resolved and rewritten.
ResolveListFile ==
  /\ p_pc = "call"
  /\ \E r \in Resolutions(IF p_out = << >> THEN p_in ELSE p_out[Len(p_out)].lines) :
       p_out' = Append(p_out, r)
  /\ p_pc' = IF Len(p_out) + 1 = MaxPasses THEN "resolved" ELSE "call"
  /\ UNCHANGED << outsideSide, pipeVars, p_in >>

CanonNext == ResolveListFile

CanonSpec == CanonInit /\ [][CanonNext]_vars

\* C37: resolving a list file that was resolved before yields the same set of
\* targets and writes the same set of lines, as many as before, whatever the
\* file held at first; the targets are the networks of its valid lines.
C37_Idempotent ==
  /\ Len(p_out) >= 1 => Range(p_out[1].nets) = NetworksOf(p_in)
  /\ \A k \in 2..Len(p_out) :
       /\ Range(p_out[k].nets) = Range(p_out[k - 1].nets)
       /\ Range(p_out[k].lines) = Range(p_out[k - 1].lines)
       /\ Len(p_out[k].lines) = Len(p_out[k - 1].lines)
       /\ Canonical(p_out[k].lines)

\* C37 witness: a file with a subnet written with host bits set, an address
\* and a line that is not valid was resolved twice; the second resolution
\* wrote the two lines of the first in the other order.
C37_Witness ==
  /\ p_pc = "resolved"
  /\ p_in = << CidrHostBits(1), Addr(2), BadText >>
  /\ p_out[1].lines = << Cidr(1), Host32(2) >>
  /\ p_out[2].lines = << Host32(2), Cidr(1) >>


C38_NotStartedReached ==
  /\ a_done[1] = 1
  /\ a_proc[1] = "none"

\* C38: reached too, the application was destroyed while the thread of a
\* scan ran, and the thread has ended without the callback.
C38_DeadReached ==
  /\ a_window = "destroyed"
  /\ a_thread[1] = "dead"
  /\ a_done[1] = 0


C39_NestedStartReached ==
  /\ InProgress = {1, 2}
  /\ Alive = {1, 2}
  /\ ~a_failed
  /\ a_current # 0

\* C39: reached too, the process of the first scan, which a stop_scan that
\* failed has left running, is alive beside the process of the second scan,
\* and current_process holds the second.
C39_LeftBehindReached ==
  /\ ~a_reentered
  /\ a_failed
  /\ a_done[1] = 1
  /\ Alive = {1, 2}
  /\ a_current = 2


\* ---------------------------------------------------------------------------
\* The output of a GUI scan: Popen gives the child a pipe for stdout and one
\* for stderr; a pipe holds a bounded number of lines and a write to a full
\* pipe blocks. stream_output, in a thread of its own, reads stdout to its
\* end, then stderr to its end, then waits for the child; thread_function
\* waits for the child too. A pipe is at its end when it is empty and the
\* child has ended.
MaxWrites == 4

PipeCapacity == 2

\* What the child can write: each line goes to stdout or to stderr.
Programs == UNION { [1..n -> {"out", "err"}] : n \in 0..MaxWrites }

\* The lines of the program that go to the pipe `to`, in the order written.
LinesTo(to) == SelectSeq([k \in DOMAIN c_prog |-> k], LAMBDA k : c_prog[k] = to)

PipeInit ==
  /\ SchedState(<< >>, 1, FALSE, "idle")
  /\ FrontIdle
  /\ StopOff
  /\ AppOff
  /\ PureOff
  /\ c_prog \in Programs
  /\ c_at = 1
  /\ c_exited = FALSE
  /\ o_pipe = << >>
  /\ e_pipe = << >>
  /\ s_pc = "stdout"
  /\ s_logged = << >>
  /\ t_pc = "wait"

\* The child writes its next line; the write blocks while the pipe is full.
ChildWrite ==
  /\ ~c_exited
  /\ c_at <= Len(c_prog)
  /\ IF c_prog[c_at] = "out"
       THEN /\ Len(o_pipe) < PipeCapacity
            /\ o_pipe' = Append(o_pipe, c_at)
            /\ UNCHANGED e_pipe
       ELSE /\ Len(e_pipe) < PipeCapacity
            /\ e_pipe' = Append(e_pipe, c_at)
            /\ UNCHANGED o_pipe
  /\ c_at' = c_at + 1
  /\ UNCHANGED << outsideSide, pureVars, c_prog, c_exited, s_pc, s_logged, t_pc >>

\* The child has written everything and ends.
ChildExit ==
  /\ ~c_exited
  /\ c_at > Len(c_prog)
  /\ c_exited' = TRUE
  /\ UNCHANGED << outsideSide, pureVars, c_prog, c_at, o_pipe, e_pipe, s_pc,
                  s_logged, t_pc >>

\* for line in process.stdout: log_callback(line)
ReadStdout ==
  /\ s_pc = "stdout"
  /\ o_pipe # << >>
  /\ s_logged' = Append(s_logged, Head(o_pipe))
  /\ o_pipe' = Tail(o_pipe)
  /\ UNCHANGED << outsideSide, pureVars, c_prog, c_at, c_exited, e_pipe, s_pc,
                  t_pc >>

\* Mutant of StdoutEof: the loop over stdout ends as soon as no line is
\* there to read.
StdoutEofWhenEmpty ==
  /\ s_pc = "stdout"
  /\ o_pipe = << >>
  /\ s_pc' = "stderr"
  /\ UNCHANGED << outsideSide, pureVars, c_prog, c_at, c_exited, o_pipe, e_pipe,
                  s_logged, t_pc >>

\* The loop over process.stdout ends at the end of the pipe.
StdoutEof ==
  /\ s_pc = "stdout"
  /\ o_pipe = << >>
  /\ c_exited
  /\ s_pc' = "stderr"
  /\ UNCHANGED << outsideSide, pureVars, c_prog, c_at, c_exited, o_pipe, e_pipe,
                  s_logged, t_pc >>

\* for err in process.stderr: log_callback(err)
ReadStderr ==
  /\ s_pc = "stderr"
  /\ e_pipe # << >>
  /\ s_logged' = Append(s_logged, Head(e_pipe))
  /\ e_pipe' = Tail(e_pipe)
  /\ UNCHANGED << outsideSide, pureVars, c_prog, c_at, c_exited, o_pipe, s_pc,
                  t_pc >>

\* The loop over process.stderr ends at the end of the pipe.
StderrEof ==
  /\ s_pc = "stderr"
  /\ e_pipe = << >>
  /\ c_exited
  /\ s_pc' = "wait"
  /\ UNCHANGED << outsideSide, pureVars, c_prog, c_at, c_exited, o_pipe, e_pipe,
                  s_logged, t_pc >>

\* process.wait() of stream_output returns and the thread ends.
StreamerWait ==
  /\ s_pc = "wait"
  /\ c_exited
  /\ s_pc' = "done"
  /\ UNCHANGED << outsideSide, pureVars, c_prog, c_at, c_exited, o_pipe, e_pipe,
                  s_logged, t_pc >>

\* self.current_process.wait() of thread_function returns.
ScanThreadWait ==
  /\ t_pc = "wait"
  /\ c_exited
  /\ t_pc' = "returned"
  /\ UNCHANGED << outsideSide, pureVars, c_prog, c_at, c_exited, o_pipe, e_pipe,
                  s_pc, s_logged >>

PipeNext ==
  \/ ChildWrite
  \/ ChildExit
  \/ ReadStdout
  \/ StdoutEof
  \/ ReadStderr
  \/ StderrEof
  \/ StreamerWait
  \/ ScanThreadWait

PipeSpec == PipeInit /\ [][PipeNext]_vars

\* The child and the two threads are scheduled.
PipeFairness ==
  /\ WF_vars(ChildWrite)
  /\ WF_vars(ChildExit)
  /\ WF_vars(ReadStdout)
  /\ WF_vars(StdoutEof)
  /\ WF_vars(ReadStderr)
  /\ WF_vars(StderrEof)
  /\ WF_vars(StreamerWait)
  /\ WF_vars(ScanThreadWait)

FairPipeSpec == PipeSpec /\ PipeFairness

\* Every line was passed to log_callback, the thread of stream_output has
\* ended and the wait of thread_function has returned.
Delivered ==
  /\ s_pc = "done"
  /\ s_logged = LinesTo("out") \o LinesTo("err")
  /\ t_pc = "returned"

C40_Blocked ==
  /\ ~c_exited
  /\ c_at <= Len(c_prog)
  /\ c_prog[c_at] = "err"
  /\ Len(e_pipe) = PipeCapacity
  /\ o_pipe = << >>
  /\ s_pc = "stdout"
  /\ t_pc = "wait"

=============================================================================
